---- MODULE Spec2Model ----
(***************************************************************************)
(* Model of the SOC QA agent (scripts/soc_qa_agent.py) and of its long-    *)
(* window runner (scripts/run_long_window.py).                             *)
(*                                                                         *)
(* soc_qa_agent.py carries unresolved merge-conflict markers.  The model   *)
(* follows the HEAD side of every conflict region (the side that has the   *)
(* alert_title fallback, the candidate sort and the event_id sniff).       *)
(*                                                                         *)
(* Text is a sequence of atoms (lexemes).  The regular expressions of      *)
(* extract_json_from_response and json.loads both work on that sequence,   *)
(* so a brace or a comment marker inside a JSON string is seen by the      *)
(* regular expressions exactly as one outside a string is.  The commas of  *)
(* JSON are not represented.                                               *)
(***************************************************************************)
EXTENDS Integers, Sequences, FiniteSets, TLC

\* ------------------------------------------------------------------------
\* Atoms
\* ------------------------------------------------------------------------
A(k, key, ty, v) == [k |-> k, key |-> key, ty |-> ty, v |-> v]

LB == A("lb", "", "", "")            \* {
RB == A("rb", "", "", "")            \* }
NL == A("nl", "", "", "")            \* newline (whitespace)
SL == A("sl", "", "", "")            \* //
BO == A("bo", "", "", "")            \* /*
BC == A("bc", "", "", "")            \* */
FENCE == A("fence", "", "", "")      \* ```
TL == A("tl", "", "", "")            \* closing quote of a string value
ARR == A("arr", "", "", "")          \* the JSON text []
NUM == A("num", "", "", "")          \* the JSON text 5
Word(s) == A("word", "", "", s)      \* a run of characters without any of the above
Hd(key) == A("hd", key, "str", "")   \* "key": "   (a member whose value is a string, up to the opening quote)
Ko(key) == A("ko", key, "", "")      \* "key":     (a member whose value is an object that follows)
Sc(key, ty, v) == A("sc", key, ty, v)  \* "key": v  (a member whose value is a number, boolean, null or list)
Str(key, s) == <<Hd(key), Word(s), TL>>

\* len(): the number of characters of a text
AtomLen(a) ==
    CASE a.k \in {"lb", "rb", "nl", "tl"} -> 1
      [] a.k \in {"sl", "bo", "bc", "arr"} -> 2
      [] a.k = "fence" -> 3
      [] a.k = "num" -> 1
      [] a.k = "word" -> 4
      [] a.k = "hd" -> 9
      [] a.k = "ko" -> 8
      [] a.k = "sc" -> 10
      [] OTHER -> 1

RECURSIVE TextLen(_)
TextLen(t) == IF t = <<>> THEN 0 ELSE AtomLen(Head(t)) + TextLen(Tail(t))

\* str.strip()
RECURSIVE LStrip(_)
LStrip(t) == IF t # <<>> /\ Head(t) = NL THEN LStrip(Tail(t)) ELSE t

RECURSIVE RStrip(_)
RStrip(t) == IF t # <<>> /\ t[Len(t)] = NL THEN RStrip(SubSeq(t, 1, Len(t) - 1)) ELSE t

Strip(t) == RStrip(LStrip(t))

\* str.startswith / str.endswith
StartsWith(t, p) == Len(t) >= Len(p) /\ SubSeq(t, 1, Len(p)) = p
EndsWith(t, p) == Len(t) >= Len(p) /\ SubSeq(t, Len(t) - Len(p) + 1, Len(t)) = p
DropFirst(t, n) == SubSeq(t, n + 1, Len(t))
DropLast(t, n) == SubSeq(t, 1, Len(t) - n)

\* ------------------------------------------------------------------------
\* json.loads
\* ------------------------------------------------------------------------
\* The decoder as a scanner: mode "val" expects a value, "obj" is inside an
\* object (a member or the closing brace comes next), "str" is inside a string
\* value, "end" has read one complete value, "bad" is a JSONDecodeError.
JStep(mode, d, a) ==
    CASE mode = "val" ->
           CASE a.k = "nl" -> <<"val", d>>
             [] a.k = "lb" -> <<"obj", d + 1>>
             [] a.k \in {"arr", "num"} -> IF d = 0 THEN <<"end", 0>> ELSE <<"obj", d>>
             [] OTHER -> <<"bad", d>>
      [] mode = "obj" ->
           CASE a.k = "nl" -> <<"obj", d>>
             [] a.k = "sc" -> <<"obj", d>>
             [] a.k = "hd" -> <<"str", d>>
             [] a.k = "ko" -> <<"val", d>>
             [] a.k = "rb" -> IF d = 1 THEN <<"end", 0>> ELSE <<"obj", d - 1>>
             [] OTHER -> <<"bad", d>>
      [] mode = "str" ->
           CASE a.k = "tl" -> <<"obj", d>>
             [] a.k \in {"nl", "hd", "ko", "sc"} -> <<"bad", d>>
             [] OTHER -> <<"str", d>>
      [] mode = "end" -> IF a.k = "nl" THEN <<"end", 0>> ELSE <<"bad", d>>
      [] OTHER -> <<"bad", d>>

RECURSIVE JScan(_, _, _, _)
JScan(t, i, mode, d) ==
    IF i > Len(t) \/ mode = "bad" THEN mode
    ELSE LET n == JStep(mode, d, t[i]) IN JScan(t, i + 1, n[1], n[2])

JsonValid(t) == JScan(t, 1, "val", 0) = "end"

JSONDecodeError == <<A("JSONDecodeError", "", "", "")>>

\* The parsed value: the text without its insignificant whitespace.
NotNL(a) == a # NL
JsonLoads(t) == IF JsonValid(t) THEN SelectSeq(t, NotNL) ELSE JSONDecodeError

\* isinstance(parsed, dict)
IsDict(p) == p # <<>> /\ p # JSONDecodeError /\ Head(p) = LB

\* index of the quote that closes the string opened at i
RECURSIVE CloseQuote(_, _)
CloseQuote(p, i) == IF i > Len(p) THEN Len(p) + 1
                    ELSE IF p[i] = TL THEN i ELSE CloseQuote(p, i + 1)

\* The members of a parsed value, each with the keys of the objects around it
\* (<<"">> for the members of the outermost object) and, for a string value,
\* the pieces of the string.
RECURSIVE MScan(_, _, _, _)
MScan(p, i, stack, pend) ==
    IF i > Len(p) THEN {}
    ELSE LET a == p[i] IN
      CASE a.k = "lb" -> MScan(p, i + 1, Append(stack, pend), "")
        [] a.k = "rb" -> MScan(p, i + 1, IF stack = <<>> THEN stack ELSE SubSeq(stack, 1, Len(stack) - 1), "")
        [] a.k = "sc" -> {[path |-> stack, atom |-> a, content |-> <<>>]} \cup MScan(p, i + 1, stack, "")
        [] a.k = "ko" -> {[path |-> stack, atom |-> a, content |-> <<>>]} \cup MScan(p, i + 1, stack, a.key)
        [] a.k = "hd" -> LET c == CloseQuote(p, i + 1) IN
                           {[path |-> stack, atom |-> a, content |-> SubSeq(p, i + 1, c - 1)]}
                             \cup MScan(p, c + 1, stack, "")
        [] OTHER -> MScan(p, i + 1, stack, "")

Members(p) == IF IsDict(p) THEN MScan(p, 1, <<>>, "") ELSE {}

\* key in parsed
HasKey(p, key) == \E m \in Members(p) : m.path = <<"">> /\ m.atom.key = key

\* ------------------------------------------------------------------------
\* The regular expressions of extract_json_from_response
\* ------------------------------------------------------------------------
IsBrace(a) == a.k \in {"lb", "rb"}

\* least index >= j of an atom satisfying the test, 0 when there is none
RECURSIVE NextBrace(_, _)
NextBrace(t, j) == IF j > Len(t) THEN 0 ELSE IF IsBrace(t[j]) THEN j ELSE NextBrace(t, j + 1)

RECURSIVE NextAtom(_, _, _)
NextAtom(t, j, a) == IF j > Len(t) THEN 0 ELSE IF t[j] = a THEN j ELSE NextAtom(t, j + 1, a)

RECURSIVE LastAtom(_, _, _)
LastAtom(t, j, a) == IF j < 1 THEN 0 ELSE IF t[j] = a THEN j ELSE LastAtom(t, j - 1, a)

\* \{[^{}]*(?:\{[^{}]*\}[^{}]*)*\} tried at an opening brace: the index of the
\* closing brace of the match, 0 when the pattern does not match there.
\* j is the position after the last brace read, inGroup whether that brace
\* opened an inner group.
RECURSIVE P1Scan(_, _, _)
P1Scan(t, j, inGroup) ==
    LET b == NextBrace(t, j) IN
    IF b = 0 THEN 0
    ELSE IF inGroup THEN (IF t[b] = RB THEN P1Scan(t, b + 1, FALSE) ELSE 0)
    ELSE (IF t[b] = RB THEN b ELSE P1Scan(t, b + 1, TRUE))

MatchP1At(t, i) == IF t[i] = LB THEN P1Scan(t, i + 1, FALSE) ELSE 0

\* re.findall(pattern 1): the leftmost non-overlapping matches
RECURSIVE FindAllP1(_, _)
FindAllP1(t, i) ==
    IF i > Len(t) THEN <<>>
    ELSE LET e == MatchP1At(t, i) IN
         IF e > 0 THEN <<SubSeq(t, i, e)>> \o FindAllP1(t, e + 1)
         ELSE FindAllP1(t, i + 1)

\* re.findall(r'\{[\s\S]*\}'): from the first opening to the last closing brace
FindAllP2(t) ==
    LET f == NextAtom(t, 1, LB)
        l == LastAtom(t, Len(t), RB)
    IN IF f > 0 /\ l > f THEN <<SubSeq(t, f, l)>> ELSE <<>>

\* candidate_matches.sort(key=len, reverse=True): stable, longest first
RECURSIVE InsertByLen(_, _)
InsertByLen(sorted, c) ==
    IF sorted = <<>> THEN <<c>>
    ELSE IF TextLen(Head(sorted)) >= TextLen(c) THEN <<Head(sorted)>> \o InsertByLen(Tail(sorted), c)
    ELSE <<c>> \o sorted

RECURSIVE SortByLenDesc(_)
SortByLenDesc(cs) ==
    IF cs = <<>> THEN <<>>
    ELSE InsertByLen(SortByLenDesc(SubSeq(cs, 1, Len(cs) - 1)), cs[Len(cs)])

\* re.sub(r'//.*?\n', '\n', match)
RECURSIVE StripLineComments(_)
StripLineComments(t) ==
    LET i == NextAtom(t, 1, SL) IN
    IF i = 0 THEN t
    ELSE LET j == NextAtom(t, i + 1, NL) IN
         IF j = 0 THEN t
         ELSE SubSeq(t, 1, i - 1) \o <<NL>> \o StripLineComments(SubSeq(t, j + 1, Len(t)))

\* re.sub(r'/\*.*?\*/', '', cleaned_match, flags=re.DOTALL)
RECURSIVE StripBlockComments(_)
StripBlockComments(t) ==
    LET i == NextAtom(t, 1, BO) IN
    IF i = 0 THEN t
    ELSE LET j == NextAtom(t, i + 1, BC) IN
         IF j = 0 THEN t
         ELSE SubSeq(t, 1, i - 1) \o StripBlockComments(SubSeq(t, j + 1, Len(t)))

CleanMatch(m) == Strip(StripBlockComments(StripLineComments(m)))

\* ------------------------------------------------------------------------
\* extract_json_from_response
\* ------------------------------------------------------------------------
Phrase(s) == A("phrase", "", "", s)

prefixes_to_remove ==
    << <<Phrase("Here is the QA report in JSON format:")>>,
       <<Phrase("Here's the QA report in JSON format:")>>,
       <<Phrase("Here is the analysis in JSON format:")>>,
       <<Phrase("Here's the analysis in JSON format:")>>,
       <<Phrase("Here is the report in JSON format:")>>,
       <<Phrase("Here's the report in JSON format:")>>,
       <<Phrase("Here is the valid JSON:")>>,
       <<Phrase("Here's the valid JSON:")>>,
       <<Phrase("JSON:")>>,
       <<FENCE, Word("json")>>,
       <<FENCE>> >>

\* for prefix in prefixes_to_remove: if startswith: cut and strip
RECURSIVE RemovePrefixes(_, _)
RemovePrefixes(t, n) ==
    IF n > Len(prefixes_to_remove) THEN t
    ELSE LET pre == prefixes_to_remove[n] IN
         RemovePrefixes(IF StartsWith(t, pre) THEN Strip(DropFirst(t, Len(pre))) ELSE t, n + 1)

\* the markdown code block markers at both ends
RemoveFences(t) ==
    LET u == IF StartsWith(t, <<FENCE>>) THEN Strip(DropFirst(t, 1)) ELSE t
    IN IF EndsWith(u, <<FENCE>>) THEN Strip(DropLast(u, 1)) ELSE u

CleanResponse(response_text) == RemoveFences(RemovePrefixes(Strip(response_text), 1))

\* both patterns' matches, longest first
CandidateMatchesUnsorted(t) == FindAllP1(t, 1) \o FindAllP2(t)

CandidateMatches(t) == SortByLenDesc(FindAllP1(t, 1) \o FindAllP2(t))

\* isinstance(parsed, dict) and ('event_id' in parsed or 'incident_id' in parsed)
AcceptsIncidentIdOnly(parsed) == IsDict(parsed) /\ HasKey(parsed, "incident_id")

Accepts(parsed) == IsDict(parsed) /\ (HasKey(parsed, "event_id") \/ HasKey(parsed, "incident_id"))

\* the loop over the candidates: the first cleaned candidate that parses and
\* is accepted, else the cleaned response
RECURSIVE FirstAccepted(_, _, _)
FirstAccepted(cs, i, response_text) ==
    IF i > Len(cs) THEN response_text
    ELSE LET cleaned_match == CleanMatch(cs[i]) IN
         IF JsonValid(cleaned_match) /\ Accepts(JsonLoads(cleaned_match))
         THEN cleaned_match
         ELSE FirstAccepted(cs, i + 1, response_text)

extract_json_from_response(response_text) ==
    LET t == CleanResponse(response_text)
    IN FirstAccepted(CandidateMatches(t), 1, t)

\* ------------------------------------------------------------------------
\* The reports analyze_incident builds itself
\* ------------------------------------------------------------------------
None == ""

\* json.dumps of a string-or-None value under a key
StrOrNull(key, s) == IF s = None THEN <<Sc(key, "null", "null")>> ELSE Str(key, s)

ZeroScores == <<Ko("scores"), LB, Sc("accuracy", "int", "0"), Sc("procedure", "int", "0"),
                Sc("documentation", "int", "0"), RB>>

EmptyRecommendations == <<Ko("recommendations"), LB, Sc("playbook_changes", "list", ""),
                          Sc("analyst_training", "list", ""), RB>>

\* analyst or "unknown"
AnalystOrUnknown(analyst) == IF analyst = None THEN "unknown" ELSE analyst

\* the report of lines 659-668
NotJsonReport(incident_id, analyst) ==
    <<LB>> \o StrOrNull("event_id", incident_id) \o Str("analyst", AnalystOrUnknown(analyst))
      \o ZeroScores \o <<Sc("missed_steps", "list", "LLM output was not valid JSON")>>
      \o <<Sc("escalation_required", "bool", "false")>>
      \o Str("summary", "LLM output could not be parsed as JSON. See raw output in logs.")
      \o EmptyRecommendations \o <<RB>>

\* the report of lines 686-694; e is str(e)
ErrorReportPlainSummary(incident_id, analyst, e) ==
    <<LB>> \o StrOrNull("event_id", incident_id) \o Str("analyst", AnalystOrUnknown(analyst))
      \o ZeroScores \o <<Sc("missed_steps", "list", "Analysis failed due to error")>>
      \o <<Sc("escalation_required", "bool", "false")>>
      \o <<Hd("summary"), Word(e), TL>>
      \o EmptyRecommendations \o <<RB>>

ErrorReport(incident_id, analyst, e) ==
    <<LB>> \o StrOrNull("event_id", incident_id) \o Str("analyst", AnalystOrUnknown(analyst))
      \o ZeroScores \o <<Sc("missed_steps", "list", "Analysis failed due to error")>>
      \o <<Sc("escalation_required", "bool", "false")>>
      \o <<Hd("summary"), Word("Analysis failed: "), Word(e), TL>>
      \o EmptyRecommendations \o <<RB>>

\* lines 654-668: recovery, then the wrap of a report that does not parse
ValidateReportKeepsText(report, incident_id, analyst) == report

ValidateReport(report, incident_id, analyst) ==
    IF JsonValid(report) THEN report ELSE NotJsonReport(incident_id, analyst)

ReportFromRaw(raw_report, incident_id, analyst) ==
    ValidateReport(extract_json_from_response(raw_report), incident_id, analyst)

\* ------------------------------------------------------------------------
\* Bounds and inputs
\* ------------------------------------------------------------------------
MaxBatch == 2      \* most records a search returns
MaxLimit == 2      \* largest LIMIT of the long-window runner

\* a raw search result: the keys the agent reads, None where the key is absent
\* A field value of a Splunk record: a string is the sequence of its
\* characters, a list holds values, and there are integers, mappings and null.
StrV(cs) == [t |-> "str", cs |-> cs, l |-> <<>>]
ListV(l) == [t |-> "list", cs |-> <<>>, l |-> l]
IntV(cs) == [t |-> "int", cs |-> cs, l |-> <<>>]
DictV == [t |-> "dict", cs |-> <<>>, l |-> <<>>]
NullV == [t |-> "null", cs |-> <<>>, l |-> <<>>]

\* bool(value)
Truthy(v) ==
    CASE v.t = "str" -> v.cs # <<>>
      [] v.t = "list" -> v.l # <<>>
      [] v.t = "int" -> v.cs # <<"0">>
      [] v.t = "dict" -> TRUE
      [] OTHER -> FALSE

T1059 == <<"T", "1", "0", "5", "9">>
T1059_001 == T1059 \o <<".", "0", "0", "1">>
T1003 == <<"T", "1", "0", "0", "3">>
Observed == <<" ", "o", "b", "s", "e", "r", "v", "e", "d">>

\* One key of a record with its value, in the order of the mapping
Item(key, value) == [key |-> key, value |-> value]

\* A record of the search result. The keys that normalization reads are
\* fields (None when the key is absent or empty); items holds the other keys
\* of the record in their order; mapping is false for an element of the
\* result that is not a mapping.
NoKeys == [ticket_id |-> None, event_id |-> None, rule_id |-> None, cd |-> None,
           source |-> None, rule_name |-> None, analyst |-> None, owner |-> None,
           user |-> None, disposition_label |-> None, status_label |-> None,
           mapping |-> TRUE, items |-> <<>>]

RawRecords ==
    { [NoKeys EXCEPT !.ticket_id = "INC1", !.source = "Brute Force", !.analyst = "alice",
                     !.items = <<Item("annotation_mitre_technique", StrV(T1059_001 \o Observed))>>],
      [NoKeys EXCEPT !.event_id = "EV2", !.rule_name = "Phishing", !.owner = "bob"],
      [NoKeys EXCEPT !.user = "carol"] }

RECURSIVE SeqsUpTo(_, _)
SeqsUpTo(S, n) ==
    IF n = 0 THEN {<<>>}
    ELSE LET shorter == SeqsUpTo(S, n - 1)
         IN shorter \cup {Append(q, x) : q \in {r \in shorter : Len(r) = n - 1}, x \in S}

\* the texts the generation service answers with
GoodReport(event_id) ==
    <<LB>> \o Str("event_id", event_id) \o Str("analyst", "alice")
      \o <<Ko("scores"), LB, Sc("accuracy", "int", "5"), Sc("procedure", "int", "4"),
           Sc("documentation", "int", "5"), RB>>
      \o <<Sc("missed_steps", "list", "")>> \o <<Sc("escalation_required", "bool", "false")>>
      \o Str("summary", "ok") \o <<Sc("recommendations", "list", "")>> \o <<RB>>

DeepObject ==
    <<LB>> \o Str("event_id", "INC1")
      \o <<Ko("recommendations"), LB, Ko("playbook_changes"), LB, Sc("step", "int", "1"), RB, RB, RB>>

GenOutputs ==
    { <<Phrase("Here is the valid JSON:"), NL, FENCE, Word("json"), NL>> \o GoodReport("INC1") \o <<NL, FENCE>>,
      <<ARR>>,
      <<LB>> \o Str("event_id", "INC1") \o <<RB>>,
      <<Word("I cannot review this incident")>>,
      <<Word("use"), LB, Word("x"), RB, Word("then")>> \o DeepObject }

GenErrors == {"timed out"}

\* what the collector does with a POST
HecOutcomes ==
    { [kind |-> "response", status |-> 200, body |-> "code 0"],
      [kind |-> "response", status |-> 200, body |-> "code 5"],
      [kind |-> "response", status |-> 200, body |-> "no code"],
      [kind |-> "response", status |-> 200, body |-> "not json"],
      [kind |-> "response", status |-> 200, body |-> "not an object"],
      [kind |-> "response", status |-> 201, body |-> "code 0"],
      [kind |-> "response", status |-> 500, body |-> "error"],
      [kind |-> "exception", status |-> 0, body |-> ""] }

\* ------------------------------------------------------------------------
\* get_closed_incidents
\* ------------------------------------------------------------------------
\* a or b
Or(a, b) == IF a # None THEN a ELSE b

\* the same with event_id tried before ticket_id
NormalizeNoTitleDefault(r) ==
    [incident_id |-> Or(r.ticket_id, Or(r.event_id, Or(r.rule_id, r.cd))),
     title |-> Or(r.source, r.rule_name),
     analyst |-> Or(r.analyst, Or(r.owner, Or(r.user, "unknown"))),
     status |-> Or(r.disposition_label, Or(r.status_label, "closed")),
     notable_data |-> <<r>>,
     audit_data |-> <<>>]

NormalizeEventIdFirst(r) ==
    [incident_id |-> Or(r.event_id, Or(r.ticket_id, Or(r.rule_id, r.cd))),
     title |-> Or(r.source, Or(r.rule_name, "Notable Event")),
     analyst |-> Or(r.analyst, Or(r.owner, Or(r.user, "unknown"))),
     status |-> Or(r.disposition_label, Or(r.status_label, "closed")),
     notable_data |-> <<r>>,
     audit_data |-> <<>>]

normalize_record(r) ==
    [incident_id |-> Or(r.ticket_id, Or(r.event_id, Or(r.rule_id, r.cd))),
     title |-> Or(r.source, Or(r.rule_name, "Notable Event")),
     analyst |-> Or(r.analyst, Or(r.owner, Or(r.user, "unknown"))),
     status |-> Or(r.disposition_label, Or(r.status_label, "closed")),
     notable_data |-> <<r>>,
     audit_data |-> <<>>]

get_closed_incidents(results) == [i \in 1..Len(results) |-> normalize_record(results[i])]

\* incidents[:limit]
SliceToTail(q, limit) ==
    IF limit >= 0 THEN SubSeq(q, IF limit < Len(q) THEN Len(q) - limit + 1 ELSE 1, Len(q))
    ELSE SubSeq(q, 1, IF Len(q) + limit > 0 THEN Len(q) + limit ELSE 0)

SliceTo(q, limit) ==
    IF limit >= 0 THEN SubSeq(q, 1, IF limit < Len(q) THEN limit ELSE Len(q))
    ELSE SubSeq(q, 1, IF Len(q) + limit > 0 THEN Len(q) + limit ELSE 0)

\* ------------------------------------------------------------------------
\* Retrieval
\* ------------------------------------------------------------------------
\* retrieve_playbook: the search raises, finds nothing, or finds documents.
\* raised is whether the exception leaves the function, caught whether its
\* handler ran.
RetrievePlaybookNoHandler(outcome) ==
    [raised |-> outcome = "raise", caught |-> FALSE,
     value |-> IF outcome = "empty" THEN "No playbook found" ELSE "PLAYBOOK TEXT"]

retrieve_playbook(outcome) ==
    [raised |-> FALSE, caught |-> outcome = "raise",
     value |-> IF outcome \in {"raise", "empty"} THEN "No playbook found" ELSE "PLAYBOOK TEXT"]

\* key.startswith('annotation_mitre_'), over the keys of the modelled records
StartsWithAnnotationMitre(key) ==
    key \in {"annotation_mitre_technique", "annotation_mitre_tactic", "annotation_mitre_"}

IsDigit(c) == c \in {"0", "1", "2", "3", "4", "5", "6", "7", "8", "9"}

\* \d+ from position j: the position of the last digit of the run (j - 1 when
\* there is no digit at j)
RECURSIVE DigitsEnd(_, _)
DigitsEnd(cs, j) == IF j <= Len(cs) /\ IsDigit(cs[j]) THEN DigitsEnd(cs, j + 1) ELSE j - 1

\* the end of a match of T\d+(?:\.\d+)? that starts at j, 0 when there is none
TechMatchEnd(cs, j) ==
    IF cs[j] # "T" THEN 0
    ELSE LET k == DigitsEnd(cs, j + 1) IN
           IF k = j THEN 0
           ELSE IF k + 1 <= Len(cs) /\ cs[k + 1] = "." /\ DigitsEnd(cs, k + 2) > k + 1
                THEN DigitsEnd(cs, k + 2)
                ELSE k

\* re.findall(r'T\d+(?:\.\d+)?', value): the matches from left to right
RECURSIVE FindAllTech(_, _)
FindAllTech(cs, j) ==
    IF j > Len(cs) THEN <<>>
    ELSE LET e == TechMatchEnd(cs, j) IN
           IF e = 0 THEN FindAllTech(cs, j + 1)
           ELSE <<SubSeq(cs, j, e)>> \o FindAllTech(cs, e + 1)

TechIdsIn(value) == FindAllTech(value, 1)

Range(q) == {q[i] : i \in 1..Len(q)}

\* list(set(techniques)): the distinct elements in some order
RECURSIVE ListOfSet(_)
ListOfSet(S) ==
    IF S = {} THEN <<>>
    ELSE LET x == CHOOSE y \in S : TRUE IN <<x>> \o ListOfSet(S \ {x})

\* The locals of extract_mitre_techniques. re is whether the name re is bound:
\* `import re` is a statement of the string branch only, so re is a local
\* name that is unbound until a string value has been processed. raisedAt is
\* the record at which the try block was left by an exception (0: none).
ExtractStart == [techniques |-> <<>>, mitre_context |-> <<>>, re |-> FALSE, raisedAt |-> 0]

\* for item in value: if isinstance(item, str): re.findall(...); extend; append
RECURSIVE ExtractList(_, _, _, _, _)
ExtractList(st, n, key, l, i) ==
    IF i > Len(l) \/ st.raisedAt # 0 THEN st
    ELSE IF l[i].t # "str" THEN ExtractList(st, n, key, l, i + 1)
    ELSE IF ~st.re THEN [st EXCEPT !.raisedAt = n]
    ELSE ExtractList([st EXCEPT !.techniques = @ \o TechIdsIn(l[i].cs),
                               !.mitre_context = Append(@, Item(key, l[i]))],
                     n, key, l, i + 1)

\* the body of `for key, value in event.items()`
ExtractField(st, n, key, value) ==
    IF ~(StartsWithAnnotationMitre(key) /\ Truthy(value)) THEN st
    ELSE LET st1 == [st EXCEPT !.mitre_context = Append(@, Item(key, value))] IN
           IF value.t = "str"
           THEN [st1 EXCEPT !.re = TRUE, !.techniques = @ \o TechIdsIn(value.cs)]
           ELSE IF value.t = "list" THEN ExtractList(st1, n, key, value.l, 1)
           ELSE st1

RECURSIVE ExtractFields(_, _, _, _)
ExtractFields(st, n, items, i) ==
    IF i > Len(items) \/ st.raisedAt # 0 THEN st
    ELSE ExtractFields(ExtractField(st, n, items[i].key, items[i].value), n, items, i + 1)

\* for event in notable_data, inside the one try block of the function: an
\* exception leaves the loop
RECURSIVE ExtractEvents(_, _, _)
ExtractEvents(st, notable_data, n) ==
    IF n > Len(notable_data) \/ st.raisedAt # 0 THEN st
    ELSE IF ~notable_data[n].mapping THEN ExtractEvents(st, notable_data, n + 1)
    ELSE ExtractEvents(ExtractFields(st, n, notable_data[n].items, 1), notable_data, n + 1)

\* return {'techniques': techniques, 'context': mitre_context}
ExtractKeepsDuplicates(notable_data) ==
    LET st == ExtractEvents(ExtractStart, notable_data, 1) IN
      [techniques |-> st.techniques, context |-> st.mitre_context,
       raisedAt |-> st.raisedAt, raised |-> FALSE]

\* except Exception: log; return {'techniques': list(set(techniques)), 'context': mitre_context}
extract_mitre_techniques(notable_data) ==
    LET st == ExtractEvents(ExtractStart, notable_data, 1) IN
      [techniques |-> ListOfSet(Range(st.techniques)), context |-> st.mitre_context,
       raisedAt |-> st.raisedAt, raised |-> FALSE]

\* What the MITRE corpus does during one call: setup is whether building the
\* embeddings and the store raises, hits the identifiers whose query has a
\* result, titleHits the number of results of the title query, raiseAt the
\* number of the similarity_search call that raises (0: none).
MaxQueries == 3
MitreCorpora ==
    [setup : BOOLEAN, hits : SUBSET {T1059_001, T1003}, titleHits : 0..2, raiseAt : 0..MaxQueries]

\* one similarity_search call: what was asked, k, and the number of results
Query(kind, q, k, n) == [kind |-> kind, q |-> q, k |-> k, n |-> n]

MitreStart == [queries |-> <<>>, collected_sections |-> <<>>, caught |-> FALSE]

\* for technique_id in technique_ids or []: similarity_search(..., k=1);
\* if results: collected_sections.append(results[0].page_content)
RECURSIVE MitreIdQueries(_, _, _, _)
MitreIdQueries(st, technique_ids, i, cor) ==
    IF i > Len(technique_ids) \/ st.caught THEN st
    ELSE LET id == technique_ids[i]
             n == IF id \in cor.hits THEN 1 ELSE 0
         IN IF cor.raiseAt = Len(st.queries) + 1
            THEN [st EXCEPT !.queries = Append(@, Query("id", id, 1, 0)), !.caught = TRUE]
            ELSE MitreIdQueries([st EXCEPT !.queries = Append(@, Query("id", id, 1, n)),
                                           !.collected_sections =
                                               IF n = 1 THEN Append(@, <<"section of", id>>) ELSE @],
                                technique_ids, i + 1, cor)

\* if not collected_sections and alert_title: similarity_search(..., k=2);
\* for r in title_results: collected_sections.append(r.page_content)
MitreTitleQuery(st, alert_title, cor) ==
    IF st.caught \/ st.collected_sections # <<>> \/ alert_title = None THEN st
    ELSE IF cor.raiseAt = Len(st.queries) + 1
         THEN [st EXCEPT !.queries = Append(@, Query("title", alert_title, 2, 0)), !.caught = TRUE]
         ELSE [st EXCEPT !.queries = Append(@, Query("title", alert_title, 2, cor.titleHits)),
                         !.collected_sections =
                             @ \o [j \in 1..cor.titleHits |-> <<"section for", alert_title, j>>]]

\* retrieve_mitre_context(technique_ids, alert_title): the joined sections,
\* "No MITRE ATT&CK context found." or, from the handler, the error sentinel
retrieve_mitre_context(technique_ids, alert_title, cor) ==
    LET st == IF cor.setup THEN [MitreStart EXCEPT !.caught = TRUE]
              ELSE MitreTitleQuery(MitreIdQueries(MitreStart, technique_ids, 1, cor),
                                   alert_title, cor)
    IN [raised |-> FALSE, caught |-> st.caught, queries |-> st.queries,
        value |-> IF st.caught THEN "Error retrieving MITRE ATT&CK context."
                  ELSE IF st.collected_sections # <<>> THEN "MITRE SECTIONS"
                  ELSE "No MITRE ATT&CK context found."]

\* the other side of the merge: self.retrieve_mitre_context(technique_ids)
AlertTitleOmitted(title) == None

\* self.retrieve_mitre_context(technique_ids, alert_title=title)
AlertTitleArgument(title) == title

\* The five queries of retrieve_mitre_recommendations, each asked with k=2
search_queries ==
    <<"playbook recommendations for {alert_title}", "mitigation strategies for {alert_title}",
      "detection techniques for {alert_title}", "incident response playbook improvements",
      "security procedure enhancements">>

\* A document of the MITRE corpus, reduced to what a recommendation keeps of
\* it: metadata type, the id (technique_id or mitigation_id or tactic_id,
\* None when it has none) and the page content
RecDoc(type, id, content) == [type |-> type, id |-> id, content |-> content]

RecIds == <<"M1", "M2", "M3", "M4", "M5", "M6", "M7", "M8", "M9", "M10">>
RecTypes == <<"technique", "mitigation", "tactic">>
DocN(n) == RecDoc(RecTypes[(n % 3) + 1], RecIds[n], "content")

\* What the corpus does during one call of retrieve_mitre_recommendations:
\* responses[q] are the results of query q in rank order, raiseAt the number
\* of the similarity_search call that raises (0: none)
NoResponses == [q \in 1..Len(search_queries) |-> <<>>]

\* for query in search_queries: for result in results: the results in query
\* order, then rank
RECURSIVE AllResults(_, _)
AllResults(responses, q) ==
    IF q > Len(search_queries) THEN <<>>
    ELSE responses[q] \o AllResults(responses, q + 1)

\* if result.metadata.get('type') in ['technique', 'mitigation', 'tactic']
IsRecommendationType(type) == type \in {"technique", "mitigation", "tactic"}

\* if rec['id'] not in seen_ids: unique_recommendations.append(rec)
RECURSIVE UniqueById(_, _, _)
UniqueById(recommendations, i, seen_ids) ==
    IF i > Len(recommendations) THEN <<>>
    ELSE IF recommendations[i].id \in seen_ids
         THEN UniqueById(recommendations, i + 1, seen_ids)
         ELSE <<recommendations[i]>>
              \o UniqueById(recommendations, i + 1, seen_ids \cup {recommendations[i].id})

\* unique_recommendations[:5]
FirstFive(q) == SubSeq(q, 1, IF Len(q) < 5 THEN Len(q) ELSE 5)

\* return unique_recommendations
RecommendationsUntruncated(cor) ==
    [raised |-> FALSE, caught |-> cor.raiseAt # 0,
     value |-> IF cor.raiseAt # 0 THEN <<>>
               ELSE UniqueById(SelectSeq(AllResults(cor.responses, 1),
                                         LAMBDA d : IsRecommendationType(d.type)), 1, {})]

\* retrieve_mitre_recommendations: [] from the handler, else the first five
\* of the recommendations with distinct ids
retrieve_mitre_recommendations(cor) ==
    [raised |-> FALSE, caught |-> cor.raiseAt # 0,
     value |-> IF cor.raiseAt # 0 THEN <<>>
               ELSE FirstFive(UniqueById(SelectSeq(AllResults(cor.responses, 1),
                                                   LAMBDA d : IsRecommendationType(d.type)), 1, {}))]

\* the corpus answers the batch runner sees: an exception, nothing, two results
RunnerRecCorpora ==
    { [raiseAt |-> 1, responses |-> NoResponses],
      [raiseAt |-> 0, responses |-> NoResponses],
      [raiseAt |-> 0, responses |-> [NoResponses EXCEPT ![1] = <<DocN(1), DocN(2)>>]] }

\* ------------------------------------------------------------------------
\* load_prompt_template: the slot names of the template the agent uses.
\* data/prompt.txt is not part of the source; its slots are the fixed slot
\* set of the report-generation prompt. The template built when the file
\* cannot be read is in the source.
\* ------------------------------------------------------------------------
FilePromptSlots ==
    {"title", "analyst", "event_id", "notable_data", "audit_data", "playbook_text",
     "mitre_context", "notable_event_create_time", "utc_qa_run_time"}

FallbackPromptSlots ==
    {"title", "analyst", "incident_id", "notable_data", "audit_data", "playbook_text",
     "mitre_context"}

load_prompt_template(file_read) ==
    IF file_read THEN FilePromptSlots ELSE FallbackPromptSlots

\* chain.invoke formats the template first: a slot that is no key of the
\* mapping raises KeyError before the model is called
MissingVariables(template, context) == template \ DOMAIN context
KeyErrorMessage == "Input to ChatPromptTemplate is missing variables"

\* ------------------------------------------------------------------------
\* The slots passed to chain.invoke
\* ------------------------------------------------------------------------
StrSlot(v) == [t |-> "str", v |-> v]
IntSlot(v) == [t |-> "int", v |-> v]

time_fields == <<"created_time", "_time", "timestamp", "firstTime">>

\* first_event[time_field] for the first time_field that is in first_event
\* with a true value; <<>> when there is none
RECURSIVE FirstTimeField(_, _)
FirstTimeField(items, f) ==
    IF f > Len(time_fields) THEN <<>>
    ELSE LET found == {i \in 1..Len(items) : items[i].key = time_fields[f] /\ Truthy(items[i].value)}
         IN IF found # {} THEN <<items[CHOOSE i \in found : TRUE].value>>
            ELSE FirstTimeField(items, f + 1)

\* notable_event_create_time: "Unknown" or str(first_event[time_field])
CreateTime(notable_data) ==
    IF notable_data = <<>> THEN "Unknown"
    ELSE LET v == FirstTimeField(notable_data[1].items, 1)
         IN IF v = <<>> THEN "Unknown" ELSE v[1].cs

\* the same slots without notable_event_create_time
PromptContextWithoutCreateTime(inc, playbook_text, mitre_context, recs) ==
    [title |-> StrSlot(inc.title),
     analyst |-> StrSlot(inc.analyst),
     event_id |-> StrSlot(inc.incident_id),
     notable_data |-> StrSlot(IF inc.notable_data # <<>> THEN "json.dumps(notable_data)" ELSE "No data"),
     audit_data |-> StrSlot(IF inc.audit_data # <<>> THEN "json.dumps(audit_data)" ELSE "No actions logged"),
     playbook_text |-> StrSlot(playbook_text),
     mitre_context |-> StrSlot([annotations |-> extract_mitre_techniques(inc.notable_data).context,
                                db |-> mitre_context, recommendations |-> recs]),
     qa_definition |-> StrSlot("qa_definition"),
     utc_qa_run_time |-> IntSlot("int(time.time())")]

\* chain.invoke({...}): every value but utc_qa_run_time is a string (the
\* arguments, a json.dumps result, a sentinel, an f-string, str(...));
\* utc_qa_run_time is int(time.time())
PromptContext(inc, playbook_text, mitre_context, recs) ==
    [title |-> StrSlot(inc.title),
     analyst |-> StrSlot(inc.analyst),
     event_id |-> StrSlot(inc.incident_id),
     notable_data |-> StrSlot(IF inc.notable_data # <<>> THEN "json.dumps(notable_data)" ELSE "No data"),
     audit_data |-> StrSlot(IF inc.audit_data # <<>> THEN "json.dumps(audit_data)" ELSE "No actions logged"),
     playbook_text |-> StrSlot(playbook_text),
     mitre_context |-> StrSlot([annotations |-> extract_mitre_techniques(inc.notable_data).context,
                                db |-> mitre_context, recommendations |-> recs]),
     qa_definition |-> StrSlot("qa_definition"),
     notable_event_create_time |-> StrSlot(CreateTime(inc.notable_data)),
     utc_qa_run_time |-> IntSlot("int(time.time())")]

\* ------------------------------------------------------------------------
\* save_report_to_splunk
\* ------------------------------------------------------------------------
\* if response.status_code == 200: return True
HecAcceptsAny200(hec) == hec.kind = "response" /\ hec.status = 200

\* if response.status_code == 200: response_data = response.json();
\* if response_data.get('code') == 0
HecAccepts(hec) == hec.kind = "response" /\ hec.status = 200 /\ hec.body = "code 0"

\* The body of the try block: where it leaves. json.loads(report_json) raises
\* JSONDecodeError before anything is sent; requests.post raises on a transport
\* failure; response.json() raises on a body that is not JSON and .get raises
\* on a JSON body that is not an object.
SaveAttempt(report_json, hec) ==
    IF ~JsonValid(report_json) THEN "JSONDecodeError"
    ELSE IF hec.kind = "exception" THEN "post raised"
    ELSE IF hec.status = 200 /\ hec.body \in {"not json", "not an object"} THEN "body raised"
    ELSE IF HecAccepts(hec) THEN "return True"
    ELSE "return False"

\* the same body with no check of the report before it is sent
SaveNoHandlers(report_json, hec) ==
    LET a == SaveAttempt(report_json, hec) IN
      [posted |-> TRUE, ok |-> a = "return True",
       raised |-> a \in {"JSONDecodeError", "post raised", "body raised"}]

\* except json.JSONDecodeError: return False; except Exception: return False
save_report_to_splunk(report_json, hec) ==
    LET a == SaveAttempt(report_json, hec) IN
      [posted |-> a # "JSONDecodeError", ok |-> a = "return True", raised |-> FALSE]

\* ------------------------------------------------------------------------
\* State
\* ------------------------------------------------------------------------
VARIABLES
    entry,       \* the entry point that runs: "none", "run_qa_cycle", "run_long_window"
    limit,       \* LIMIT of the long-window runner
    incidents,   \* what get_closed_incidents returned
    batch,       \* the incidents the loop iterates over
    idx,         \* position of the loop in batch (0 before the first incident)
    pc,          \* position of the runner
    loc,         \* the locals of the analyze_incident call in progress
    reports,     \* every report analyze_incident returned: [i, report, via, raw]
    sinkLog,     \* every save_report_to_splunk call: [i, report, posted, ok]
    trace,       \* the stages passed: <<i, stage>> ("generate": chain.invoke, "llm": the model called)
    success,     \* counters of the long-window runner
    fail,
    completion,  \* what the runner reports when the batch is done
    rIn,         \* recovery alone: the text given to extract_json_from_response,
    rObj,        \*   the JSON object that was embedded in it (<<>> when none),
    rOut,        \*   and the outputs of the successive applications
    callIn,      \* one operation called on its own: the operation and its arguments,
    callOut,     \*   and what the call returned
    prompt_template, \* the slot names of the template load_prompt_template set
    updater      \* mitre_attack_updater: the timestamp file, the clock, the runs made

vars == <<entry, limit, incidents, batch, idx, pc, loc, reports, sinkLog, trace,
          success, fail, completion, rIn, rObj, rOut, callIn, callOut, prompt_template, updater>>

runnerVars == <<entry, limit, incidents, batch, idx, pc, loc, reports, sinkLog, trace,
                success, fail, completion, prompt_template, updater>>

\* no operation is called on its own / the call has not returned
NoCall == [op |-> "none"]
NoResult == [done |-> FALSE]

\* caught: the retrieval operations whose handler ran; mitre_queries: the
\* searches retrieve_mitre_context made; prompt: the slots for chain.invoke
NoLocals == [playbook_text |-> None, mitre_context |-> None, recs |-> <<>>,
             caught |-> {}, mitre_queries |-> <<>>, prompt |-> <<>>,
             raw_report |-> <<>>, report |-> <<>>, e |-> None]

NoCompletion == [text |-> None, counts |-> <<>>]

RunnerInit ==
    /\ entry = "none"
    /\ limit = 0
    /\ incidents = <<>>
    /\ batch = <<>>
    /\ idx = 0
    /\ pc = "Idle"
    /\ loc = NoLocals
    /\ reports = <<>>
    /\ sinkLog = <<>>
    /\ trace = <<>>
    /\ success = 0
    /\ fail = 0
    /\ completion = NoCompletion

\* ------------------------------------------------------------------------
\* mitre_attack_updater: the last-update file and the decision to update.
\* Time is counted in days and half days.
\* ------------------------------------------------------------------------
\* MITRE_ATTACK_CONFIG['update_interval_days'] (MITRE_UPDATE_INTERVAL)
update_interval_days == 2

Time(day, half) == [day |-> day, half |-> half]
MissingFile == [state |-> "missing", day |-> 0, half |-> 0]
UnreadableFile == [state |-> "unreadable", day |-> 0, half |-> 0]
TimestampFile(now) == [state |-> "timestamp", day |-> now.day, half |-> now.half]

\* (datetime.now() - last_update).days: the whole days of the difference
DaysBetween(now, last_update) ==
    IF now.half >= last_update.half THEN now.day - last_update.day
    ELSE now.day - last_update.day - 1

check_update_needed(file, now) ==
    IF file.state = "missing" THEN TRUE
    ELSE IF file.state = "unreadable" THEN TRUE
    ELSE DaysBetween(now, file) >= update_interval_days

\* open(last_update_file, 'w') and write: the file holds the time, or open
\* raised and the file is as before, or write raised after open emptied it
record_update_time(file, now, write) ==
    CASE write = "written" -> TimestampFile(now)
      [] write = "open failed" -> file
      [] write = "write failed" -> UnreadableFile

\* the time is recorded whether or not the update succeeded
MainRecordsAlways(file, now, update, write) ==
    IF check_update_needed(file, now)
    THEN [attempted |-> TRUE, file |-> record_update_time(file, now, write)]
    ELSE [attempted |-> FALSE, file |-> file]

\* main: update is what update_attack_knowledge_base did ("True", "False",
\* or "raise" when it raised and main ended with the exception)
main(file, now, update, write) ==
    IF check_update_needed(file, now)
    THEN [attempted |-> TRUE,
          file |-> IF update = "True" THEN record_update_time(file, now, write) ELSE file]
    ELSE [attempted |-> FALSE, file |-> file]

\* the updater is a program of its own: it does not run with the agent
NoUpdater == [file |-> MissingFile, now |-> Time(0, 0), runs |-> <<>>]

\* the agent is constructed (load_prompt_template runs in __init__) with or
\* without a readable data/prompt.txt
Init ==
    /\ RunnerInit /\ rIn = <<>> /\ rObj = <<>> /\ rOut = <<>> /\ callIn = NoCall /\ callOut = NoResult
    /\ \E file_read \in BOOLEAN : prompt_template = load_prompt_template(file_read)
    /\ updater = NoUpdater

\* the loop variable bound one iteration late
StaleIncident == batch[IF idx > 1 THEN idx - 1 ELSE 1]

incident == batch[idx]

\* ------------------------------------------------------------------------
\* Entry points: run_qa_cycle and run_long_window.main
\* ------------------------------------------------------------------------
StartCycle ==
    /\ pc = "Idle" /\ entry = "none"
    /\ entry' = "run_qa_cycle"
    /\ pc' = "Fetching"
    /\ UNCHANGED <<limit, incidents, batch, idx, loc, reports, sinkLog, trace, success, fail,
                   completion, rIn, rObj, rOut, callIn, callOut, prompt_template, updater>>

StartLongWindow ==
    /\ pc = "Idle" /\ entry = "none"
    /\ \E l \in -1..MaxLimit : limit' = l
    /\ entry' = "run_long_window"
    /\ pc' = "Fetching"
    /\ UNCHANGED <<incidents, batch, idx, loc, reports, sinkLog, trace, success, fail,
                   completion, rIn, rObj, rOut, callIn, callOut, prompt_template, updater>>

\* incidents = get_closed_incidents(); the loop runs over incidents, in the
\* long-window runner over incidents[:limit]
Fetch ==
    /\ pc = "Fetching"
    /\ \E results \in SeqsUpTo(RawRecords, MaxBatch) :
         /\ incidents' = get_closed_incidents(results)
         /\ batch' = IF entry = "run_long_window" THEN SliceTo(incidents', limit) ELSE incidents'
    /\ idx' = 0
    /\ pc' = "Loop"
    /\ UNCHANGED <<entry, limit, loc, reports, sinkLog, trace, success, fail, completion,
                   rIn, rObj, rOut, callIn, callOut, prompt_template, updater>>

\* for incident in incidents: report = analyze_incident(...)
BeginIncident ==
    /\ pc = "Loop" /\ idx < Len(batch)
    /\ idx' = idx + 1
    /\ loc' = NoLocals
    /\ pc' = "Validate"
    /\ UNCHANGED <<entry, limit, incidents, batch, reports, sinkLog, trace, success, fail,
                   completion, rIn, rObj, rOut, callIn, callOut, prompt_template, updater>>

\* the loop is over: "QA cycle completed" / "Completed. Success: .., Fail: .."
Complete ==
    /\ pc = "Loop" /\ idx = Len(batch)
    /\ completion' = IF entry = "run_long_window"
                     THEN [text |-> "Completed.", counts |-> <<success, fail>>]
                     ELSE [text |-> "QA cycle completed", counts |-> <<>>]
    /\ pc' = "Idle"
    /\ UNCHANGED <<entry, limit, incidents, batch, idx, loc, reports, sinkLog, trace, success,
                   fail, rIn, rObj, rOut, callIn, callOut, prompt_template, updater>>

\* ------------------------------------------------------------------------
\* analyze_incident
\* ------------------------------------------------------------------------
\* if not incident_id or not title: raise ValueError
\* if not incident_id:
ValidationFailsIdOnly(incident_id, title) == incident_id = None

\* if not incident_id or not title:
ValidationFails(incident_id, title) == incident_id = None \/ title = None

Validate ==
    /\ pc = "Validate"
    /\ IF ValidationFails(incident.incident_id, incident.title)
       THEN /\ loc' = [loc EXCEPT !.e = "Incident ID and title are required"]
            /\ pc' = "Except"
       ELSE /\ loc' = loc
            /\ pc' = "Playbook"
    /\ trace' = Append(trace, <<idx, "validate">>)
    /\ UNCHANGED <<entry, limit, incidents, batch, idx, reports, sinkLog, success, fail,
                   completion, rIn, rObj, rOut, callIn, callOut, prompt_template, updater>>

\* what one retrieval call leaves in the locals: its value, or the exception
\* when the call raises
AfterRetrieval(l, op, r, next) ==
    IF r.raised
    THEN [locals |-> [l EXCEPT !.e = "corpus search failed", !.caught = @ \cup {op}], pc |-> "Except"]
    ELSE [locals |-> [l EXCEPT !.caught = IF r.caught THEN @ \cup {op} ELSE @], pc |-> next]

\* playbook_text = self.retrieve_playbook(title)
RetrievePlaybook ==
    /\ pc = "Playbook"
    /\ \E outcome \in {"raise", "empty", "docs"} :
         LET r == retrieve_playbook(outcome)
             a == AfterRetrieval(loc, "retrieve_playbook", r, "MitreContext")
         IN /\ loc' = [a.locals EXCEPT !.playbook_text = r.value]
            /\ pc' = a.pc
    /\ trace' = Append(trace, <<idx, "retrieve">>)
    /\ UNCHANGED <<entry, limit, incidents, batch, idx, reports, sinkLog, success, fail,
                   completion, rIn, rObj, rOut, callIn, callOut, prompt_template, updater>>

\* mitre_data = self.extract_mitre_techniques(notable_data);
\* mitre_context_from_db = self.retrieve_mitre_context(technique_ids, alert_title=title)
RetrieveMitreContext ==
    /\ pc = "MitreContext"
    /\ \E cor \in MitreCorpora :
         LET r == retrieve_mitre_context(extract_mitre_techniques(incident.notable_data).techniques,
                                         AlertTitleArgument(incident.title), cor)
             a == AfterRetrieval(loc, "retrieve_mitre_context", r, "Recommendations")
         IN /\ loc' = [a.locals EXCEPT !.mitre_context = r.value, !.mitre_queries = r.queries]
            /\ pc' = a.pc
    /\ UNCHANGED <<entry, limit, incidents, batch, idx, reports, sinkLog, trace, success, fail,
                   completion, rIn, rObj, rOut, callIn, callOut, prompt_template, updater>>

\* mitre_recommendations = self.retrieve_mitre_recommendations(title, notable_data)
RetrieveRecommendations ==
    /\ pc = "Recommendations"
    /\ \E cor \in RunnerRecCorpora :
         LET r == retrieve_mitre_recommendations(cor)
             a == AfterRetrieval(loc, "retrieve_mitre_recommendations", r, "Assemble")
         IN /\ loc' = [a.locals EXCEPT !.recs = r.value]
            /\ pc' = a.pc
    /\ UNCHANGED <<entry, limit, incidents, batch, idx, reports, sinkLog, trace, success, fail,
                   completion, rIn, rObj, rOut, callIn, callOut, prompt_template, updater>>

\* The statements between retrieval and chain.invoke: the combined MITRE
\* context, the create time, the run time and the serialized data
AssemblePrompt ==
    /\ pc = "Assemble"
    /\ loc' = [loc EXCEPT !.prompt = PromptContext(incident, loc.playbook_text,
                                                   loc.mitre_context, loc.recs)]
    /\ pc' = "Generate"
    /\ UNCHANGED <<entry, limit, incidents, batch, idx, reports, sinkLog, trace, success, fail,
                   completion, rIn, rObj, rOut, callIn, callOut, prompt_template, updater>>

\* raw_report = chain.invoke({...}): the service answers with a text or raises
Generate ==
    /\ pc = "Generate"
    /\ IF MissingVariables(prompt_template, loc.prompt) # {}
       THEN /\ loc' = [NoLocals EXCEPT !.e = KeyErrorMessage]
            /\ pc' = "Except"
            /\ trace' = Append(trace, <<idx, "generate">>)
       ELSE /\ \/ \E text \in GenOutputs :
                    /\ loc' = [NoLocals EXCEPT !.raw_report = text]
                    /\ pc' = "Recover"
               \/ \E msg \in GenErrors :
                    /\ loc' = [NoLocals EXCEPT !.e = msg]
                    /\ pc' = "Except"
            /\ trace' = trace \o << <<idx, "generate">>, <<idx, "llm">> >>
    /\ UNCHANGED <<entry, limit, incidents, batch, idx, reports, sinkLog, success, fail,
                   completion, rIn, rObj, rOut, callIn, callOut, prompt_template, updater>>

\* report = extract_json_from_response(raw_report), validated; return report
Recover ==
    /\ pc = "Recover"
    /\ LET report == ReportFromRaw(loc.raw_report, incident.incident_id, incident.analyst) IN
         /\ loc' = [NoLocals EXCEPT !.report = report]
         /\ reports' = Append(reports, [i |-> idx, report |-> report, via |-> "recover",
                                         raw |-> loc.raw_report])
    /\ trace' = Append(trace, <<idx, "recover">>)
    /\ pc' = "Persist"
    /\ UNCHANGED <<entry, limit, incidents, batch, idx, sinkLog, success, fail, completion,
                   rIn, rObj, rOut, callIn, callOut, prompt_template, updater>>

\* except Exception as e: return json.dumps({...})
AnalyzeExceptReraises(incident_id, analyst, e) ==
    [raised |-> TRUE, report |-> <<>>]

AnalyzeExcept(incident_id, analyst, e) ==
    [raised |-> FALSE, report |-> ErrorReport(incident_id, analyst, e)]

\* The handler of analyze_incident and, for an exception that leaves
\* analyze_incident, the handler of the runner's loop body (log and go on; the
\* long-window runner counts a failure).
Except ==
    /\ pc = "Except"
    /\ LET r == AnalyzeExcept(incident.incident_id, incident.analyst, loc.e) IN
         IF r.raised
         THEN /\ loc' = NoLocals
              /\ fail' = IF entry = "run_long_window" THEN fail + 1 ELSE fail
              /\ pc' = "Loop"
              /\ UNCHANGED reports
         ELSE /\ loc' = [NoLocals EXCEPT !.report = r.report]
              /\ reports' = Append(reports, [i |-> idx, report |-> r.report, via |-> "except",
                                              raw |-> <<>>])
              /\ pc' = "Persist"
              /\ UNCHANGED fail
    /\ UNCHANGED <<entry, limit, incidents, batch, idx, sinkLog, trace, success, completion,
                   rIn, rObj, rOut, callIn, callOut, prompt_template, updater>>

\* save_report_to_splunk(report); the long-window runner counts the result
Persist ==
    /\ pc = "Persist"
    /\ \E hec \in HecOutcomes :
         LET r == save_report_to_splunk(loc.report, hec) IN
           /\ sinkLog' = Append(sinkLog, [i |-> idx, report |-> loc.report,
                                          posted |-> r.posted, ok |-> r.ok])
           /\ success' = IF entry = "run_long_window" /\ r.ok THEN success + 1 ELSE success
           /\ fail' = IF entry = "run_long_window" /\ ~r.ok THEN fail + 1 ELSE fail
    /\ trace' = Append(trace, <<idx, "persist">>)
    /\ loc' = NoLocals
    /\ pc' = "Loop"
    /\ UNCHANGED <<entry, limit, incidents, batch, idx, reports, completion, rIn, rObj, rOut, callIn, callOut, prompt_template, updater>>

Next ==
    \/ StartCycle
    \/ StartLongWindow
    \/ Fetch
    \/ BeginIncident
    \/ Validate
    \/ RetrievePlaybook
    \/ RetrieveMitreContext
    \/ RetrieveRecommendations
    \/ AssemblePrompt
    \/ Generate
    \/ Recover
    \/ Except
    \/ Persist
    \/ Complete

Spec == Init /\ [][Next]_vars

\* The runner is one sequential process: as long as every external call
\* returns or raises, its next step is taken. The steps that work on a
\* text (the MITRE retrieval, the assembly of the prompt, the recovery of the
\* generated text, the POST to the collector) are total at their position;
\* their fairness is stated on the position they leave.
RunnerStep ==
    \/ StartCycle \/ StartLongWindow \/ Fetch \/ BeginIncident \/ Validate
    \/ RetrievePlaybook \/ RetrieveRecommendations \/ Generate
    \/ Except \/ Complete

SpecLive ==
    /\ Init /\ [][Next]_vars
    /\ WF_vars(RunnerStep)
    /\ WF_pc(pc = "MitreContext" /\ pc' = "Recommendations")
    /\ WF_pc(pc = "Assemble" /\ pc' = "Generate")
    /\ WF_pc(pc = "Recover" /\ pc' = "Persist")
    /\ WF_pc(pc = "Persist" /\ pc' = "Loop")

\* ------------------------------------------------------------------------
\* extract_json_from_response on its own
\* ------------------------------------------------------------------------
MaxDepth == 3      \* deepest nesting of the embedded objects

\* an object with an event_id key whose braces nest d deep
RECURSIVE Nested(_)
Nested(d) == IF d = 0 THEN <<Sc("step", "int", "1")>>
             ELSE <<Ko("inner"), LB>> \o Nested(d - 1) \o <<RB>>

EidObject(d) == <<LB>> \o Str("event_id", "INC1") \o Nested(d - 1) \o <<RB>>

\* a QAReport as json.dumps writes it (one line), with a given summary string
ReportWithSummary(pieces) ==
    <<LB>> \o Str("event_id", "INC1") \o Str("analyst", "alice")
      \o <<Ko("scores"), LB, Sc("accuracy", "int", "5"), Sc("procedure", "int", "4"),
           Sc("documentation", "int", "5"), RB>>
      \o <<Sc("missed_steps", "list", "")>> \o <<Sc("escalation_required", "bool", "false")>>
      \o <<Hd("summary")>> \o pieces \o <<TL>>
      \o EmptyRecommendations \o <<RB>>

CanonicalReports ==
    { NotJsonReport("INC1", "alice"),
      NotJsonReport(None, None),
      ErrorReport("INC1", "alice", "timed out"),
      ErrorReport(None, "carol", "Incident ID and title are required"),
      GoodReport("INC1"),
      ReportWithSummary(<<Word("ok")>>),
      ReportWithSummary(<<Word("see http:"), SL, Word("wiki")>>),
      ReportWithSummary(<<Word("unbalanced"), RB, Word("brace")>>),
      ReportWithSummary(<<Word("see"), BO, Word("note"), BC, Word("here")>>) }

\* objects with an event_id key: nested 1..MaxDepth deep, written on several
\* lines, with a string value that holds // or /* */
EidObjects ==
    {EidObject(d) : d \in 1..MaxDepth}
      \cup { <<LB, NL>> \o Str("event_id", "INC1") \o <<NL>> \o Str("summary", "ok") \o <<NL, RB>>,
             <<LB>> \o Str("event_id", "INC1") \o <<Hd("url"), Word("http:"), SL, Word("wiki"), TL, NL>>
                \o Str("summary", "ok") \o <<RB>>,
             <<LB>> \o Str("event_id", "INC1") \o <<Hd("url"), Word("http:"), SL, Word("wiki"), TL>>
                \o Str("summary", "ok") \o <<RB>>,
             <<LB>> \o Str("incident_id", "INC1") \o Str("event_id", "INC1") \o <<RB>> }

\* what stands before and after the object: nothing, prose, the known
\* preamble and fences, prose with braces, comments
Preambles ==
    { <<>>,
      <<Word("Sure")>>,
      <<Phrase("Here is the valid JSON:"), NL, FENCE, Word("json"), NL>>,
      <<Phrase("JSON:")>>,
      <<FENCE, NL>>,
      <<Word("use"), LB, Word("x"), RB, Word("then")>>,
      <<SL, Word("the report"), NL>>,
      <<BO, Word("the report"), BC>> }

Postambles ==
    { <<>>,
      <<NL, FENCE>>,
      <<Word("thanks")>>,
      <<Word("thanks"), LB, Word("ok"), RB>>,
      <<NL, SL, Word("end"), NL>> }

\* texts without any JSON object that has an event_id key
OtherTexts ==
    { <<>>, <<ARR>>, <<NUM>>, <<Word("I cannot review this incident")>>,
      <<LB, Sc("foo", "int", "1"), RB>>,
      <<Word("use"), LB, Word("x"), RB>>,
      <<LB>> \o Str("incident_id", "INC1") \o <<RB>>,
      <<LB, Sc("foo", "int", "1"), RB, Word("or"), LB>> \o Str("incident_id", "INC1") \o <<RB>> }

\* two objects in a row, the second one longer, both, one or none of them
\* with an id key
IdObjects ==
    { <<LB>> \o Str("event_id", "INC1") \o <<RB>>,
      <<LB>> \o Str("incident_id", "INC1") \o <<RB>>,
      <<LB, Sc("foo", "int", "1"), RB>> }

TwoObjectTexts ==
    { [text |-> first \o <<Word("or")>> \o <<LB>> \o Str("event_id", "EV2") \o Str("summary", "ok") \o <<RB>>,
       obj |-> <<LB>> \o Str("event_id", "EV2") \o Str("summary", "ok") \o <<RB>>] : first \in IdObjects }
    \cup
    { [text |-> first \o <<Word("or")>> \o <<LB, Sc("foo", "int", "1"), Sc("bar", "int", "2"), RB>>,
       obj |-> <<>>] : first \in IdObjects }

RecoveryInit ==
    /\ RunnerInit /\ prompt_template = load_prompt_template(TRUE) /\ updater = NoUpdater
    /\ rOut = <<>>
    /\ callIn = NoCall /\ callOut = NoResult
    /\ \/ \E pre \in Preambles, obj \in EidObjects, post \in Postambles :
            rIn = pre \o obj \o post /\ rObj = obj
       \/ \E two \in TwoObjectTexts : rIn = two.text /\ rObj = two.obj
       \/ \E s \in CanonicalReports : rIn = s /\ rObj = s
       \/ \E t \in OtherTexts : rIn = t /\ rObj = <<>>

\* extract_json_from_response applied to the text, then to its own output
Recovery ==
    /\ Len(rOut) < 2
    /\ rOut' = Append(rOut, extract_json_from_response(IF rOut = <<>> THEN rIn ELSE rOut[Len(rOut)]))
    /\ UNCHANGED <<runnerVars, rIn, rObj, callIn, callOut>>

SpecRecovery == RecoveryInit /\ [][Recovery]_vars

\* ------------------------------------------------------------------------
\* save_report_to_splunk alone: any report string, any answer of the collector
\* ------------------------------------------------------------------------
SinkReports == CanonicalReports \cup GenOutputs \cup OtherTexts

SinkInit ==
    /\ RunnerInit /\ prompt_template = load_prompt_template(TRUE) /\ updater = NoUpdater
    /\ rIn = <<>> /\ rObj = <<>> /\ rOut = <<>>
    /\ \E report \in SinkReports, hec \in HecOutcomes :
         callIn = [op |-> "save_report_to_splunk", report |-> report, hec |-> hec]
    /\ callOut = NoResult

SaveReport ==
    /\ callIn.op = "save_report_to_splunk" /\ ~callOut.done
    /\ LET r == save_report_to_splunk(callIn.report, callIn.hec) IN
         callOut' = [done |-> TRUE, posted |-> r.posted, ok |-> r.ok, raised |-> r.raised]
    /\ UNCHANGED <<runnerVars, rIn, rObj, rOut, callIn>>

SpecSink == SinkInit /\ [][SaveReport]_vars

\* ------------------------------------------------------------------------
\* extract_mitre_techniques alone: any notable_data of up to MaxEvents elements
\* ------------------------------------------------------------------------
MaxEvents == 2

Events ==
    { [NoKeys EXCEPT !.mapping = FALSE],
      [NoKeys EXCEPT !.items = <<Item("src_ip", StrV(T1003))>>],
      [NoKeys EXCEPT !.items = <<Item("annotation_mitre_technique", StrV(T1059_001 \o Observed))>>],
      [NoKeys EXCEPT !.items = <<Item("annotation_mitre_technique",
                                      ListV(<<StrV(T1059), IntV(<<"5">>),
                                              StrV(<<"x">> \o T1003 \o <<".", "5", ".">>)>>))>>],
      [NoKeys EXCEPT !.items = <<Item("annotation_mitre_tactic", StrV(T1003 \o Observed)),
                                 Item("annotation_mitre_technique", ListV(<<StrV(T1003)>>))>>],
      [NoKeys EXCEPT !.items = <<Item("annotation_mitre_technique", ListV(<<IntV(<<"5">>), StrV(T1059)>>)),
                                 Item("annotation_mitre_tactic", StrV(T1059 \o <<" ">> \o T1059))>>],
      [NoKeys EXCEPT !.items = <<Item("annotation_mitre_technique", IntV(<<"7">>)),
                                 Item("annotation_mitre_tactic", DictV)>>],
      [NoKeys EXCEPT !.items = <<Item("annotation_mitre_technique", StrV(<<>>)),
                                 Item("annotation_mitre_tactic", NullV),
                                 Item("annotation_mitre_", StrV(<<"T", ".", "1", "T", "7">>))>>] }

ExtractInit ==
    /\ RunnerInit /\ prompt_template = load_prompt_template(TRUE) /\ updater = NoUpdater
    /\ rIn = <<>> /\ rObj = <<>> /\ rOut = <<>>
    /\ \E notable_data \in SeqsUpTo(Events, MaxEvents) :
         callIn = [op |-> "extract_mitre_techniques", notable_data |-> notable_data]
    /\ callOut = NoResult

Extract ==
    /\ callIn.op = "extract_mitre_techniques" /\ ~callOut.done
    /\ LET r == extract_mitre_techniques(callIn.notable_data) IN
         callOut' = [done |-> TRUE, techniques |-> r.techniques, context |-> r.context,
                     raisedAt |-> r.raisedAt, raised |-> r.raised]
    /\ UNCHANGED <<runnerVars, rIn, rObj, rOut, callIn>>

SpecExtract == ExtractInit /\ [][Extract]_vars

\* ------------------------------------------------------------------------
\* analyze_incident called on its own, with arguments that need not come
\* from normalization, or called by the batch runner
\* ------------------------------------------------------------------------
DirectIncidents ==
    { [normalize_record(r) EXCEPT !.incident_id = incident_id, !.title = title] :
        r \in RawRecords, incident_id \in {None, "INC1"}, title \in {None, "Brute Force"} }

AnalyzeCallInit ==
    /\ entry = "analyze_incident"
    /\ limit = 0
    /\ \E inc \in DirectIncidents : incidents = <<inc>> /\ batch = <<inc>>
    /\ idx = 1
    /\ pc = "Validate"
    /\ loc = NoLocals
    /\ reports = <<>> /\ sinkLog = <<>> /\ trace = <<>>
    /\ success = 0 /\ fail = 0
    /\ completion = NoCompletion
    /\ rIn = <<>> /\ rObj = <<>> /\ rOut = <<>>
    /\ callIn = NoCall /\ callOut = NoResult
    /\ \E file_read \in BOOLEAN : prompt_template = load_prompt_template(file_read)
    /\ updater = NoUpdater

AnalyzeInit == Init \/ AnalyzeCallInit

\* the steps of analyze_incident; the call has returned when pc is "Persist"
AnalyzeStep ==
    \/ Validate
    \/ RetrievePlaybook
    \/ RetrieveMitreContext
    \/ RetrieveRecommendations
    \/ AssemblePrompt
    \/ Generate
    \/ Recover
    \/ Except

AnalyzeNext == (entry # "analyze_incident" /\ Next) \/ (entry = "analyze_incident" /\ AnalyzeStep)

SpecAnalyze == AnalyzeInit /\ [][AnalyzeNext]_vars

\* ------------------------------------------------------------------------
\* _normalize_record alone: every record over the keys it reads, each key
\* absent or populated
\* ------------------------------------------------------------------------
Populated ==
    [ticket_id |-> "INC1", event_id |-> "EV2", rule_id |-> "R3", cd |-> "CD4",
     source |-> "Brute Force", rule_name |-> "Phishing", analyst |-> "alice", owner |-> "bob",
     user |-> "carol", disposition_label |-> "benign", status_label |-> "resolved"]

NormalizeRecords ==
    { [k \in DOMAIN NoKeys |-> IF k \in present THEN Populated[k] ELSE NoKeys[k]] :
        present \in SUBSET DOMAIN Populated }

NormalizeInit ==
    /\ RunnerInit /\ prompt_template = load_prompt_template(TRUE) /\ updater = NoUpdater
    /\ rIn = <<>> /\ rObj = <<>> /\ rOut = <<>>
    /\ \E r \in NormalizeRecords : callIn = [op |-> "_normalize_record", r |-> r]
    /\ callOut = NoResult

Normalize ==
    /\ callIn.op = "_normalize_record" /\ ~callOut.done
    /\ callOut' = [done |-> TRUE, incident |-> normalize_record(callIn.r), raised |-> FALSE]
    /\ UNCHANGED <<runnerVars, rIn, rObj, rOut, callIn>>

SpecNormalize == NormalizeInit /\ [][Normalize]_vars

\* ------------------------------------------------------------------------
\* retrieve_mitre_context, called on its own with any identifiers and title
\* or called by analyze_incident in the batch runner
\* ------------------------------------------------------------------------
MaxIds == 2

MitreCallInit ==
    /\ RunnerInit /\ prompt_template = load_prompt_template(TRUE) /\ updater = NoUpdater
    /\ rIn = <<>> /\ rObj = <<>> /\ rOut = <<>>
    /\ \E technique_ids \in SeqsUpTo({T1059_001, T1003}, MaxIds), alert_title \in {None, "Brute Force"},
          cor \in MitreCorpora :
         callIn = [op |-> "retrieve_mitre_context", technique_ids |-> technique_ids,
                   alert_title |-> alert_title, cor |-> cor]
    /\ callOut = NoResult

MitreInit == Init \/ MitreCallInit

RetrieveMitre ==
    /\ callIn.op = "retrieve_mitre_context" /\ ~callOut.done
    /\ LET r == retrieve_mitre_context(callIn.technique_ids, callIn.alert_title, callIn.cor) IN
         callOut' = [done |-> TRUE, value |-> r.value, queries |-> r.queries,
                     caught |-> r.caught, raised |-> r.raised]
    /\ UNCHANGED <<runnerVars, rIn, rObj, rOut, callIn>>

\* the runner runs when no operation is called on its own
MitreNext == (callIn = NoCall /\ Next) \/ RetrieveMitre

SpecMitre == MitreInit /\ [][MitreNext]_vars

\* ------------------------------------------------------------------------
\* retrieve_mitre_recommendations called directly, over the answers the
\* corpus can give to the five queries
\* ------------------------------------------------------------------------
SoftwareDoc == RecDoc("software", "S0002", "content")
NoIdDoc == RecDoc("technique", None, "content")

\* the answers to query q: nothing, one or two documents of its own, a
\* document every query can return next to one of another type, a second
\* document under the id of the next query's, documents without an id
ResponsesFor(q) ==
    { <<>>,
      <<DocN(q)>>,
      <<DocN(q), DocN(q + Len(search_queries))>>,
      <<DocN(1), SoftwareDoc>>,
      <<RecDoc("tactic", RecIds[(q % Len(search_queries)) + 1], "other content"), DocN(q)>>,
      <<NoIdDoc, RecDoc("mitigation", None, "other content")>> }

RecCorpora ==
    [raiseAt : {0, 3},
     responses : {f \in [1..Len(search_queries) -> UNION {ResponsesFor(q) : q \in 1..Len(search_queries)}] :
                    \A q \in 1..Len(search_queries) : f[q] \in ResponsesFor(q)}]

RecsInit ==
    /\ RunnerInit /\ prompt_template = load_prompt_template(TRUE) /\ updater = NoUpdater
    /\ rIn = <<>> /\ rObj = <<>> /\ rOut = <<>>
    /\ \E cor \in RecCorpora :
         callIn = [op |-> "retrieve_mitre_recommendations", alert_title |-> "Brute Force",
                   cor |-> cor]
    /\ callOut = NoResult

Recommend ==
    /\ callIn.op = "retrieve_mitre_recommendations" /\ ~callOut.done
    /\ LET r == retrieve_mitre_recommendations(callIn.cor) IN
         callOut' = [done |-> TRUE, value |-> r.value, caught |-> r.caught, raised |-> r.raised]
    /\ UNCHANGED <<runnerVars, rIn, rObj, rOut, callIn>>

SpecRecs == RecsInit /\ [][Recommend]_vars

\* ------------------------------------------------------------------------
\* Properties
\* ------------------------------------------------------------------------
SinkCallsOf(i) == {n \in 1..Len(sinkLog) : sinkLog[n].i = i}
ReportsOf(i) == {n \in 1..Len(reports) : reports[n].i = i}
InTrace(ev) == \E n \in 1..Len(trace) : trace[n] = ev

\* the pass over incident i is over
Finished(i) == idx > i \/ (idx = i /\ pc \in {"Loop", "Idle"})

BatchDone == completion # NoCompletion

\* an exception reached the handler of analyze_incident during incident i
Excepted(i) == Finished(i) /\ ~InTrace(<<i, "recover">>)
GenerationRaised(i) == Excepted(i) /\ InTrace(<<i, "generate">>)

AnalysisErrors == GenErrors \cup {"Incident ID and title are required", KeyErrorMessage}

\* shape of a parsed report
Top(p, key) == {m \in Members(p) : m.path = <<"">> /\ m.atom.key = key}

ScoreIn(p, name, values) ==
    \E m \in Members(p) : /\ m.path = <<"", "scores">>
                          /\ m.atom = Sc(name, "int", m.atom.v)
                          /\ m.atom.v \in values

ScoreNames == {"accuracy", "procedure", "documentation"}

WellFormedQAReport(p) ==
    /\ IsDict(p)
    /\ \A key \in {"event_id", "analyst", "summary", "recommendations"} : Top(p, key) # {}
    /\ \E m \in Top(p, "scores") : m.atom.k = "ko"
    /\ \A name \in ScoreNames : ScoreIn(p, name, {"0", "1", "2", "3", "4", "5"})
    /\ \E m \in Top(p, "missed_steps") : m.atom.k = "sc" /\ m.atom.ty = "list"
    /\ \E m \in Top(p, "escalation_required") : m.atom.k = "sc" /\ m.atom.ty = "bool"

EventIdIs(p, id) ==
    \E m \in Top(p, "event_id") :
        IF id = None THEN m.atom.ty = "null" ELSE m.content = <<Word(id)>>

AllScoresZero(p) == \A name \in ScoreNames : ScoreIn(p, name, {"0"})

MissedStepIs(p, step) == \E m \in Top(p, "missed_steps") : m.atom.ty = "list" /\ m.atom.v = step

SummaryHas(p, phrase) ==
    \E m \in Top(p, "summary") : \E n \in 1..Len(m.content) : m.content[n] = Word(phrase)

\* C1: every incident of the batch gets at most one report and at most one
\* ReportSink call, and once its pass is over it has exactly one report and
\* exactly one ReportSink call, made with that report.
C1_OneReportOnePersist ==
    \A i \in 1..Len(batch) :
        /\ Cardinality(ReportsOf(i)) <= 1
        /\ Cardinality(SinkCallsOf(i)) <= 1
        /\ Finished(i) =>
             /\ Cardinality(ReportsOf(i)) = 1
             /\ Cardinality(SinkCallsOf(i)) = 1
             /\ \A n \in ReportsOf(i), m \in SinkCallsOf(i) : sinkLog[m].report = reports[n].report

\* a finished batch in which validation failed for one incident and recovery
\* failed for another
C1_Witness ==
    /\ BatchDone /\ Len(batch) = 2
    /\ \E n, m \in 1..Len(sinkLog) :
         /\ sinkLog[n].report = ErrorReport(None, batch[sinkLog[n].i].analyst,
                                            "Incident ID and title are required")
         /\ sinkLog[m].report = NotJsonReport(batch[sinkLog[m].i].incident_id, batch[sinkLog[m].i].analyst)

\* C2: every report handed to ReportSink is a well-formed QAReport.
C2_SinkReportsWellFormed ==
    \A n \in 1..Len(sinkLog) : WellFormedQAReport(JsonLoads(sinkLog[n].report))

\* C3: every string analyze_incident returns parses as JSON, so every
\* ReportSink call gets a string that parses.
C3_ReturnedReportParses ==
    /\ \A n \in 1..Len(reports) : JsonValid(reports[n].report)
    /\ \A n \in 1..Len(sinkLog) : JsonValid(sinkLog[n].report) /\ sinkLog[n].posted

\* the generation output was not JSON and the report went to the sink
C3_Witness ==
    \E n \in 1..Len(reports) :
        /\ reports[n].via = "recover"
        /\ ~JsonValid(extract_json_from_response(reports[n].raw))
        /\ SinkCallsOf(reports[n].i) # {}

\* C4: an exception that reaches the per-incident boundary is turned into the
\* fallback report of that incident, which goes to ReportSink; the runner
\* stops only at the end of the batch, and by then every incident has been
\* to ReportSink.
C4_ExceptionsContained ==
    /\ \A i \in 1..Len(batch) :
         Excepted(i) =>
           \E e \in AnalysisErrors :
             LET fallback == ErrorReport(batch[i].incident_id, batch[i].analyst, e) IN
               /\ \E n \in ReportsOf(i) : reports[n].report = fallback
               /\ \E n \in SinkCallsOf(i) : sinkLog[n].report = fallback
    /\ (pc = "Idle" /\ entry # "none") => BatchDone
    /\ BatchDone => \A i \in 1..Len(batch) : Finished(i) /\ SinkCallsOf(i) # {}

\* the first incident raised, the second one went through recovery
C4_Witness ==
    /\ BatchDone /\ Len(batch) = 2
    /\ Excepted(1)
    /\ InTrace(<<2, "recover">>) /\ SinkCallsOf(2) # {}

StageRank(stage) ==
    CASE stage = "validate" -> 0
      [] stage = "retrieve" -> 1
      [] stage = "generate" -> 2
      [] stage = "llm" -> 3
      [] stage = "recover" -> 4
      [] stage = "persist" -> 5

\* C5: the batch is a prefix of the fetched incidents and is processed in that
\* order, one incident at a time: the stages of incident i all come before
\* those of incident i+1, whose analysis starts only after incident i's
\* ReportSink call; within an incident retrieval comes before generation,
\* generation before recovery, recovery before persistence.
C5_Ordering ==
    /\ \A i \in 1..Len(batch) : batch[i] = incidents[i]
    /\ \A a, b \in 1..Len(trace) :
         a < b => \/ trace[a][1] < trace[b][1]
                  \/ /\ trace[a][1] = trace[b][1]
                     /\ StageRank(trace[a][2]) < StageRank(trace[b][2])
    /\ \A a \in 1..Len(trace) :
         /\ trace[a][1] > 1 => InTrace(<<trace[a][1] - 1, "persist">>)
         /\ trace[a][2] = "generate" => InTrace(<<trace[a][1], "retrieve">>)
         /\ trace[a][2] = "recover" => InTrace(<<trace[a][1], "generate">>)
    /\ \A n \in 1..Len(sinkLog) :
         sinkLog[n].i = n /\ (InTrace(<<n, "recover">>) \/ Excepted(n) \/ pc = "Persist")

\* two incidents went through every stage
C5_Witness ==
    /\ BatchDone
    /\ \A i \in 1..2 : \A stage \in {"validate", "retrieve", "generate", "recover", "persist"} :
         InTrace(<<i, stage>>)

\* C6: when the batch is done the runner reports a success and a failure
\* count; they add up to the number of incidents processed, and the success
\* count is the number of ReportSink calls that returned true.
C6_CountsReported ==
    BatchDone =>
      IF Len(completion.counts) # 2 THEN FALSE
      ELSE /\ completion.counts[1] + completion.counts[2] = Len(batch)
           /\ completion.counts[1] = Cardinality({n \in 1..Len(sinkLog) : sinkLog[n].ok})

\* C7: for a text that contains exactly one well-formed JSON object with an
\* event_id key, extract_json_from_response returns a text that parses to
\* that object.
C7_EmbeddedObjectRecovered ==
    (rObj # <<>> /\ rOut # <<>>) => JsonLoads(rOut[1]) = JsonLoads(rObj)

\* C8: for a canonical QAReport string, extract_json_from_response gives a
\* text that parses to the same object, and so does a second application.
C8_RecoveryIdempotent ==
    rIn \in CanonicalReports => \A n \in 1..Len(rOut) : JsonLoads(rOut[n]) = JsonLoads(rIn)

\* some part of the text is a JSON object
ContainsJsonObject(t) ==
    \E a \in 1..Len(t), b \in 1..Len(t) :
        a <= b /\ t[a] = LB /\ JsonValid(SubSeq(t, a, b))

\* C9: when the generation output contains no valid JSON object, the report
\* of the incident is the fallback: event_id the incident's id, the three
\* scores 0, and a missed_steps entry saying the output was not valid JSON.
C9_NoJsonGivesFallback ==
    \A n \in 1..Len(reports) :
        (reports[n].via = "recover" /\ ~ContainsJsonObject(reports[n].raw)) =>
          LET p == JsonLoads(reports[n].report) IN
            /\ EventIdIs(p, batch[reports[n].i].incident_id)
            /\ AllScoresZero(p)
            /\ MissedStepIs(p, "LLM output was not valid JSON")

\* C10: when the generation service raises, the incident still gets a report
\* whose summary has "Analysis failed", with scores 0 and the incident's id;
\* the report goes to ReportSink and the runner goes on to the next incident.
C10_GenerationFailureReported ==
    \A i \in 1..Len(batch) :
        GenerationRaised(i) =>
          /\ \E n \in ReportsOf(i) :
               LET p == JsonLoads(reports[n].report) IN
                 /\ SummaryHas(p, "Analysis failed: ")
                 /\ AllScoresZero(p)
                 /\ EventIdIs(p, batch[i].incident_id)
                 /\ \E m \in SinkCallsOf(i) : sinkLog[m].report = reports[n].report
          /\ (BatchDone /\ i < Len(batch)) => SinkCallsOf(i + 1) # {}

\* generation raised for the first incident and the second was persisted
C10_Witness ==
    /\ BatchDone /\ Len(batch) = 2
    /\ GenerationRaised(1)
    /\ SinkCallsOf(1) # {} /\ SinkCallsOf(2) # {}

\* ------------------------------------------------------------------------
\* C11. save_report_to_splunk returns true exactly when the collector answered
\* HTTP 200 with a body whose code is 0; a non-200 answer, a 200 answer with a
\* non-zero or missing code and a 200 answer whose body does not parse all
\* return false.
\* ------------------------------------------------------------------------
SinkReturned == callIn.op = "save_report_to_splunk" /\ callOut.done

C11_TrueIff200Code0 ==
    (SinkReturned /\ JsonValid(callIn.report)) =>
        /\ callOut.ok <=> (callIn.hec.kind = "response" /\ callIn.hec.status = 200
                              /\ callIn.hec.body = "code 0")
        /\ (callIn.hec.kind = "response" /\ callIn.hec.status # 200) => ~callOut.ok
        /\ (callIn.hec.status = 200
              /\ callIn.hec.body \in {"code 5", "no code", "not json", "not an object"}) => ~callOut.ok

C11_Witness ==
    /\ SinkReturned /\ JsonValid(callIn.report)
    /\ callIn.hec.status = 200 /\ callIn.hec.body = "code 0" /\ callOut.ok

\* ------------------------------------------------------------------------
\* C12. save_report_to_splunk never raises: a report string that does not
\* parse as JSON gives false and no request is sent; a transport exception of
\* the POST gives false.
\* ------------------------------------------------------------------------
C12_SinkNeverRaises ==
    SinkReturned =>
        /\ ~callOut.raised
        /\ ~JsonValid(callIn.report) => (~callOut.ok /\ ~callOut.posted)
        /\ callIn.hec.kind = "exception" => ~callOut.ok

C12_Witness ==
    /\ SinkReturned /\ ~JsonValid(callIn.report)
    /\ callIn.hec.kind = "response" /\ callIn.hec.status = 200 /\ callIn.hec.body = "code 0"
    /\ ~callOut.ok

\* ------------------------------------------------------------------------
\* C15. For every notable_data (empty, records without annotation keys,
\* elements that are not mappings, string and list valued annotations)
\* extract_mitre_techniques returns without raising; its techniques hold no
\* duplicates and only strings of the form T<digits>[.<digits>]; for the one
\* record {"annotation_mitre_technique": "T1059.001 observed"} the techniques
\* are exactly T1059.001.
\* ------------------------------------------------------------------------
ExtractReturned == callIn.op = "extract_mitre_techniques" /\ callOut.done

NoDuplicates(q) == \A i, j \in 1..Len(q) : q[i] = q[j] => i = j

\* T, one or more digits, and at most one dot that has digits on both sides
IsTechniqueId(t) ==
    /\ Len(t) >= 2 /\ t[1] = "T"
    /\ \A i \in 2..Len(t) : IsDigit(t[i]) \/ t[i] = "."
    /\ Cardinality({i \in 2..Len(t) : t[i] = "."}) <= 1
    /\ IsDigit(t[2]) /\ IsDigit(t[Len(t)])

Scenario2 == <<[NoKeys EXCEPT !.items = <<Item("annotation_mitre_technique", StrV(T1059_001 \o Observed))>>]>>

C15_TechniquesWellFormed ==
    ExtractReturned =>
        /\ ~callOut.raised
        /\ NoDuplicates(callOut.techniques)
        /\ \A i \in 1..Len(callOut.techniques) : IsTechniqueId(callOut.techniques[i])
        /\ callIn.notable_data = Scenario2 => callOut.techniques = <<T1059_001>>

C15_Witness ==
    /\ ExtractReturned
    /\ Len(callIn.notable_data) = 2
    /\ ~callIn.notable_data[1].mapping
    /\ \E i \in 1..Len(callIn.notable_data[2].items) : callIn.notable_data[2].items[i].value.t = "list"
    /\ callOut.techniques = <<T1003>>
    /\ Len(callOut.context) = 3

\* ------------------------------------------------------------------------
\* C20. In extract_mitre_techniques an exception while one record is
\* processed skips that record only: every later record is still examined
\* and the identifiers of its annotations are in the result.
\* ------------------------------------------------------------------------
\* the identifiers in the string valued annotations of one record
RECURSIVE StrIdsOf(_, _)
StrIdsOf(items, i) ==
    IF i > Len(items) THEN {}
    ELSE (IF StartsWithAnnotationMitre(items[i].key) /\ items[i].value.t = "str"
          THEN Range(FindAllTech(items[i].value.cs, 1)) ELSE {})
         \cup StrIdsOf(items, i + 1)

C20_LaterRecordsExamined ==
    (ExtractReturned /\ callOut.raisedAt # 0) =>
        \A n \in (callOut.raisedAt + 1)..Len(callIn.notable_data) :
            callIn.notable_data[n].mapping =>
                StrIdsOf(callIn.notable_data[n].items, 1) \subseteq Range(callOut.techniques)

\* ------------------------------------------------------------------------
\* C13. An exception of a corpus search inside retrieve_playbook,
\* retrieve_mitre_context or retrieve_mitre_recommendations does not reach
\* the caller: the operation returns "No playbook found", the MITRE error
\* sentinel or no recommendations, and analyze_incident goes on to invoke
\* generation instead of ending in the fallback report.
\* ------------------------------------------------------------------------
ValidIncident(i) == batch[i].incident_id # None /\ batch[i].title # None

C13_RetrievalFailuresContained ==
    /\ pc \in {"MitreContext", "Recommendations", "Assemble", "Generate"} =>
          /\ "retrieve_playbook" \in loc.caught => loc.playbook_text = "No playbook found"
          /\ "retrieve_mitre_context" \in loc.caught =>
                loc.mitre_context = "Error retrieving MITRE ATT&CK context."
          /\ "retrieve_mitre_recommendations" \in loc.caught => loc.recs = <<>>
    /\ pc = "Except" => loc.caught = {}
    /\ \A i \in 1..Len(batch) : (Finished(i) /\ ValidIncident(i)) => InTrace(<<i, "generate">>)

C13_Witness ==
    /\ pc = "Generate"
    /\ loc.caught = {"retrieve_playbook", "retrieve_mitre_context", "retrieve_mitre_recommendations"}

\* ------------------------------------------------------------------------
\* C14. In retrieve_mitre_context the title query (2 results) is issued
\* exactly when no identifier query had a result (also with no identifiers)
\* and the alert title is not empty; it comes after all identifier queries;
\* "No MITRE ATT&CK context found." is returned only when every query that
\* was issued had no result. Called by analyze_incident, the fallback has
\* the title of the incident. (A call whose handler ran may have stopped
\* before the fallback; then only the "only if" half is required.)
\* ------------------------------------------------------------------------
IdQueries(queries) == {n \in 1..Len(queries) : queries[n].kind = "id"}
TitleQueries(queries) == {n \in 1..Len(queries) : queries[n].kind = "title"}

FallbackRule(technique_ids, alert_title, queries, value, caught) ==
    LET idHit == \E n \in IdQueries(queries) : queries[n].n > 0
        wanted == ~idHit /\ alert_title # None
    IN /\ ~caught => (TitleQueries(queries) # {} <=> wanted)
       /\ TitleQueries(queries) # {} => wanted
       /\ \A n \in TitleQueries(queries) :
             /\ n = Len(queries)
             /\ queries[n].k = 2 /\ queries[n].q = alert_title
             /\ IdQueries(queries) = 1..Len(technique_ids)
       /\ \A n \in IdQueries(queries) :
             n <= Len(technique_ids) /\ queries[n].q = technique_ids[n] /\ queries[n].k = 1
       /\ value = "No MITRE ATT&CK context found." =>
             /\ \A n \in 1..Len(queries) : queries[n].n = 0
             /\ IdQueries(queries) = 1..Len(technique_ids)
             /\ alert_title # None => TitleQueries(queries) # {}

MitreReturned == callIn.op = "retrieve_mitre_context" /\ callOut.done

C14_TitleFallback ==
    /\ MitreReturned =>
          FallbackRule(callIn.technique_ids, callIn.alert_title, callOut.queries,
                       callOut.value, callOut.caught)
    /\ pc = "Recommendations" =>
          FallbackRule(extract_mitre_techniques(incident.notable_data).techniques, incident.title,
                       loc.mitre_queries, loc.mitre_context,
                       "retrieve_mitre_context" \in loc.caught)

C14_Witness ==
    /\ pc = "Recommendations"
    /\ Len(loc.mitre_queries) = 2
    /\ loc.mitre_queries[1] = Query("id", T1059_001, 1, 0)
    /\ loc.mitre_queries[2] = Query("title", incident.title, 2, 0)
    /\ loc.mitre_context = "No MITRE ATT&CK context found."

\* ------------------------------------------------------------------------
\* C17. Whenever generation is invoked, every slot of the prompt context
\* (title, analyst, event_id, notable_data, audit_data, playbook_text,
\* mitre_context, notable_event_create_time, utc_qa_run_time) is present and
\* has a string value, also when retrieval failed or returned nothing.
\* ------------------------------------------------------------------------
PromptSlots ==
    {"title", "analyst", "event_id", "notable_data", "audit_data", "playbook_text",
     "mitre_context", "notable_event_create_time", "utc_qa_run_time"}

NormalizeReturned == callIn.op = "_normalize_record" /\ callOut.done

\* v is the value of the first key of keys that r populates, default if none
IsFirstPopulated(v, r, keys, default) ==
    \/ \E k \in 1..Len(keys) :
          /\ r[keys[k]] # None
          /\ \A j \in 1..(k - 1) : r[keys[j]] = None
          /\ v = r[keys[k]]
    \/ /\ \A k \in 1..Len(keys) : r[keys[k]] = None
       /\ v = default

C16_NormalizationTotal ==
    NormalizeReturned =>
        LET r == callIn.r
            inc == callOut.incident
        IN /\ ~callOut.raised
           /\ DOMAIN inc = {"incident_id", "title", "analyst", "status", "notable_data", "audit_data"}
           /\ IsFirstPopulated(inc.incident_id, r, <<"ticket_id", "event_id", "rule_id", "cd">>, None)
           /\ IsFirstPopulated(inc.title, r, <<"source", "rule_name">>, "Notable Event")
           /\ IsFirstPopulated(inc.analyst, r, <<"analyst", "owner", "user">>, "unknown")
           /\ IsFirstPopulated(inc.status, r, <<"disposition_label", "status_label">>, "closed")
           /\ inc.notable_data = <<r>>
           /\ inc.audit_data = <<>>

C16_Witness ==
    /\ NormalizeReturned
    /\ callIn.r.ticket_id = None /\ callIn.r.event_id # None /\ callIn.r.rule_id # None
    /\ callIn.r.source = None /\ callIn.r.rule_name = None
    /\ callOut.incident.incident_id = "EV2"
    /\ callOut.incident.title = "Notable Event"
    /\ callOut.incident.analyst = "unknown"

\* ------------------------------------------------------------------------
\* C18. An incident whose incident_id or title is empty never enters
\* analysis: no playbook, technique or recommendation retrieval is issued
\* for it and generation is not invoked; its report is the canonical
\* fallback QAReport; the other incidents of the batch are unaffected.
\* ------------------------------------------------------------------------
\* analyze_incident has returned or raised for incident i
AnalysisOver(i) == idx > i \/ (idx = i /\ pc \in {"Persist", "Loop", "Idle"})

C18_InvalidIncidentNotAnalyzed ==
    /\ \A i \in 1..Len(batch) :
         ~ValidIncident(i) =>
           /\ \A stage \in {"retrieve", "generate", "recover"} : ~InTrace(<<i, stage>>)
           /\ idx = i =>
                /\ pc \notin {"Playbook", "MitreContext", "Recommendations", "Assemble",
                               "Generate", "Recover"}
                /\ loc.mitre_queries = <<>> /\ loc.caught = {} /\ loc.raw_report = <<>>
           /\ AnalysisOver(i) =>
                \E n \in ReportsOf(i) :
                    LET p == JsonLoads(reports[n].report) IN
                      /\ WellFormedQAReport(p)
                      /\ EventIdIs(p, batch[i].incident_id)
                      /\ AllScoresZero(p)
                      /\ MissedStepIs(p, "Analysis failed due to error")
                      /\ SummaryHas(p, "Incident ID and title are required")
    /\ \A j \in 1..Len(batch) :
         (ValidIncident(j) /\ AnalysisOver(j)) =>
           /\ InTrace(<<j, "retrieve">>) /\ InTrace(<<j, "generate">>)
           /\ Cardinality(ReportsOf(j)) = 1
    /\ BatchDone => \A j \in 1..Len(batch) : SinkCallsOf(j) # {}

\* analyze_incident called with an identifier and an empty title has returned
C18_Witness ==
    /\ entry = "analyze_incident"
    /\ batch[1].incident_id # None /\ batch[1].title = None
    /\ pc = "Persist"
    /\ reports # <<>>

\* ------------------------------------------------------------------------
\* C19. When incident_id or title is empty, the validation failure is
\* propagated to the caller of the per-incident analysis as a validation
\* error and is not swallowed inside it: analyze_incident ends without
\* returning a report.
\* ------------------------------------------------------------------------
C19_ValidationErrorPropagates ==
    \A i \in 1..Len(batch) : (~ValidIncident(i) /\ AnalysisOver(i)) => ReportsOf(i) = {}

\* C19 as the code has it: when incident_id or title is empty the
\* ValueError is raised inside the try block of analyze_incident and caught
\* by its own handler; the caller gets no exception but the error report,
\* whose summary carries the validation message, and the batch runner hands
\* that report to the sink.
C19_ValidationErrorReported ==
    \A i \in 1..Len(batch) :
        (~ValidIncident(i) /\ AnalysisOver(i)) =>
            /\ \E n \in ReportsOf(i) :
                  /\ reports[n].via = "except"
                  /\ SummaryHas(JsonLoads(reports[n].report), "Incident ID and title are required")
            /\ Finished(i) => \E m \in SinkCallsOf(i) : \E n \in ReportsOf(i) :
                                  sinkLog[m].report = reports[n].report

\* the batch runner is done with a batch whose second incident has no identifier
C19_Witness ==
    /\ BatchDone /\ Len(batch) = 2
    /\ ValidIncident(1) /\ ~ValidIncident(2)
    /\ \E n \in ReportsOf(2) : reports[n].via = "except"

\* ------------------------------------------------------------------------
\* C21. For an annotation key whose value is a sequence,
\* extract_mitre_techniques treats each string element like a string value:
\* "{key}: {element}" is in the context and the identifiers of the element
\* are in the techniques, wherever the key stands among the keys of the
\* record and whether or not a string valued annotation came before it.
\* ------------------------------------------------------------------------
StringElements(l) == {i \in 1..Len(l) : l[i].t = "str"}

C21_ListElementsLikeStrings ==
    ExtractReturned =>
        \A n \in 1..Len(callIn.notable_data) :
            callIn.notable_data[n].mapping =>
                LET items == callIn.notable_data[n].items IN
                  \A i \in 1..Len(items) :
                      (StartsWithAnnotationMitre(items[i].key) /\ items[i].value.t = "list") =>
                          \A j \in StringElements(items[i].value.l) :
                              LET el == items[i].value.l[j] IN
                                /\ Item(items[i].key, el) \in Range(callOut.context)
                                /\ Range(FindAllTech(el.cs, 1)) \subseteq Range(callOut.techniques)

\* ------------------------------------------------------------------------
\* C22. The context returned by extract_mitre_techniques holds one entry per
\* annotation string value or string element of an annotation sequence and
\* nothing else: other keys, annotation values that are neither a string nor
\* a sequence, and a sequence as a whole add no entry. (Stated for the calls
\* in which no record raised.)
\* ------------------------------------------------------------------------
RECURSIVE ElementEntries(_, _, _)
ElementEntries(key, l, j) ==
    IF j > Len(l) THEN <<>>
    ELSE (IF l[j].t = "str" THEN <<Item(key, l[j])>> ELSE <<>>) \o ElementEntries(key, l, j + 1)

RECURSIVE ItemEntries(_, _)
ItemEntries(items, i) ==
    IF i > Len(items) THEN <<>>
    ELSE (IF ~StartsWithAnnotationMitre(items[i].key) THEN <<>>
          ELSE IF items[i].value.t = "str" /\ items[i].value.cs # <<>> THEN <<items[i]>>
          ELSE IF items[i].value.t = "list" THEN ElementEntries(items[i].key, items[i].value.l, 1)
          ELSE <<>>)
         \o ItemEntries(items, i + 1)

RECURSIVE ExpectedContext(_, _)
ExpectedContext(notable_data, n) ==
    IF n > Len(notable_data) THEN <<>>
    ELSE (IF notable_data[n].mapping THEN ItemEntries(notable_data[n].items, 1) ELSE <<>>)
         \o ExpectedContext(notable_data, n + 1)

C22_ContextOnlyStrings ==
    (ExtractReturned /\ callOut.raisedAt = 0) =>
        callOut.context = ExpectedContext(callIn.notable_data, 1)

\* ------------------------------------------------------------------------
\* The updater run again and again (cron) while time passes
\* ------------------------------------------------------------------------
MaxRuns == 3       \* most runs of the updater
MaxDay == 4        \* the clock stops at the start of this day

agentVars == <<entry, limit, incidents, batch, idx, pc, loc, reports, sinkLog, trace,
               success, fail, completion, rIn, rObj, rOut, callIn, callOut, prompt_template>>

UpdaterInit ==
    /\ RunnerInit /\ prompt_template = load_prompt_template(TRUE)
    /\ rIn = <<>> /\ rObj = <<>> /\ rOut = <<>>
    /\ callIn = NoCall /\ callOut = NoResult
    /\ \E file \in {MissingFile, UnreadableFile, TimestampFile(Time(0, 0))} :
         updater = [file |-> file, now |-> Time(0, 1), runs |-> <<>>]

\* one run of main
UpdaterMain ==
    /\ Len(updater.runs) < MaxRuns
    /\ \E update \in {"True", "False", "raise"}, write \in {"written", "open failed", "write failed"} :
         LET r == main(updater.file, updater.now, update, write) IN
           updater' = [updater EXCEPT
                         !.file = r.file,
                         !.runs = Append(@, [before |-> updater.file, at |-> updater.now,
                                             attempted |-> r.attempted,
                                             update |-> IF r.attempted THEN update ELSE "skipped",
                                             after |-> r.file])]
    /\ UNCHANGED agentVars

\* half a day passes
Tick ==
    /\ updater.now.day < MaxDay
    /\ updater' = [updater EXCEPT !.now = IF @.half = 0 THEN Time(@.day, 1) ELSE Time(@.day + 1, 0)]
    /\ UNCHANGED agentVars

UpdaterNext == UpdaterMain \/ Tick

SpecUpdater == UpdaterInit /\ [][UpdaterNext]_vars

RecsReturned == callIn.op = "retrieve_mitre_recommendations" /\ callOut.done

\* the results of the five queries in query order, then rank, written out
SeenInOrder(responses) ==
    responses[1] \o responses[2] \o responses[3] \o responses[4] \o responses[5]

\* position p of the results is the first one of its id among the results
\* of a recommendation type
FirstSeenAt(results, p) ==
    /\ results[p].type \in {"technique", "mitigation", "tactic"}
    /\ \A o \in 1..(p - 1) :
         results[o].type \in {"technique", "mitigation", "tactic"} => results[o].id # results[p].id

\* C23: whatever the corpus answers to the five queries, at most five
\* recommendations are returned, each of type technique, mitigation or
\* tactic, with pairwise distinct ids, in first-seen order (query order, then
\* rank), and they are the first five of the deduplicated list: a first-seen
\* result is left out only behind five returned ones.
C23_FirstFiveDistinct ==
    (RecsReturned /\ ~callOut.caught) =>
        LET results == SeenInOrder(callIn.cor.responses)
            firsts == {p \in 1..Len(results) : FirstSeenAt(results, p)}
            value == callOut.value
        IN /\ Len(value) <= 5
           /\ \A i \in 1..Len(value) : value[i].type \in {"technique", "mitigation", "tactic"}
           /\ \A i, j \in 1..Len(value) : i # j => value[i].id # value[j].id
           /\ Len(value) = (IF Cardinality(firsts) < 5 THEN Cardinality(firsts) ELSE 5)
           /\ \A i \in 1..Len(value) :
                \E p \in firsts :
                    /\ results[p] = value[i]
                    /\ Cardinality({o \in firsts : o < p}) = i - 1

\* more than five distinct ids were seen, a result of another type and a
\* repeated id among them, and five recommendations came back
C23_Witness ==
    /\ RecsReturned /\ ~callOut.caught
    /\ Len(callOut.value) = 5
    /\ LET results == SeenInOrder(callIn.cor.responses) IN
         /\ Cardinality({p \in 1..Len(results) : FirstSeenAt(results, p)}) > 5
         /\ \E p \in 1..Len(results) : results[p] = SoftwareDoc
         /\ \E p, o \in 1..Len(results) :
              p < o /\ results[p].id = results[o].id /\ results[p] # results[o]

\* C24: whichever template the agent loaded (from the file or the built-in
\* one), every slot name of it is a key of the context handed to generation,
\* and no analysis fails for a missing slot.
C24_EverySlotHasAKey ==
    /\ pc = "Generate" => \A slot \in prompt_template : slot \in DOMAIN loc.prompt
    /\ pc = "Except" => loc.e # "Input to ChatPromptTemplate is missing variables"

\* a brace-delimited candidate qualifies: with its comments removed it
\* parses as a JSON object that has an event_id or incident_id key
Qualifies(c) ==
    /\ JsonValid(CleanMatch(c))
    /\ IsDict(JsonLoads(CleanMatch(c)))
    /\ HasKey(JsonLoads(CleanMatch(c)), "event_id") \/ HasKey(JsonLoads(CleanMatch(c)), "incident_id")

\* the candidates of both patterns in the cleaned text, and the text given
\* to the n-th application
CandidateSet(cleaned) == Range(FindAllP1(cleaned, 1) \o FindAllP2(cleaned))
RecoveryInput(n) == IF n = 1 THEN rIn ELSE rOut[n - 1]

LlmCalls(i) == Cardinality({n \in 1..Len(trace) : trace[n] = <<i, "llm">>})

\* C26: the generation service is invoked at most once per incident (no
\* retry after an exception) and never for an incident that fails validation.
C26_AtMostOneGeneration ==
    \A i \in 1..Len(batch) :
        /\ LlmCalls(i) <= 1
        /\ (batch[i].incident_id = None \/ batch[i].title = None) => LlmCalls(i) = 0
        /\ GenerationRaised(i) => LlmCalls(i) + Cardinality(ReportsOf(i)) <= 2

\* a batch is done in which the generation raised for the first incident,
\* after one call, and the second incident failed validation
C26_Witness ==
    /\ BatchDone /\ Len(batch) = 2
    /\ GenerationRaised(1) /\ LlmCalls(1) = 1
    /\ batch[2].incident_id = None /\ LlmCalls(2) = 0

\* the state of the batch runner: Idle, Fetching, the head of the loop, and
\* per incident Analyzing (validation up to generation and the handler),
\* Recovering, Persisting
Phase ==
    IF pc \in {"Idle", "Fetching", "Loop"} THEN pc
    ELSE IF pc = "Recover" THEN "Recovering"
    ELSE IF pc = "Persist" THEN "Persisting"
    ELSE "Analyzing"

PipelineEdges ==
    { <<"Idle", "Fetching">>, <<"Fetching", "Loop">>, <<"Loop", "Analyzing">>,
      <<"Analyzing", "Recovering">>, <<"Recovering", "Persisting">>,
      <<"Persisting", "Loop">>, <<"Loop", "Idle">> }

VisitedAll == \A i \in 1..Len(batch) : InTrace(<<i, "validate">>) /\ InTrace(<<i, "persist">>)

\* C27 as stated: the runner goes Idle -> Fetching -> per incident
\* (Analyzing -> Recovering -> Persisting) -> Idle, every incident passing
\* through the three per-incident states in that order.
C27_PipelineAsStated == [][Phase' # Phase => <<Phase, Phase'>> \in PipelineEdges]_vars

\* C27 (amended): the runner goes Idle -> Fetching -> per incident (Analyzing
\* -> Recovering -> Persisting, Recovering being skipped when the analysis
\* raised and the error report is persisted) -> Idle; it eventually is back
\* in Idle with every incident of the batch visited, and leaves every
\* per-incident state.
C27_RunnerReturnsToIdle ==
    /\ [][Phase' # Phase =>
            <<Phase, Phase'>> \in PipelineEdges \cup {<<"Analyzing", "Persisting">>}]_vars
    /\ [](pc = "Persist" /\ reports[Len(reports)].via = "except" => ~InTrace(<<idx, "recover">>))
    /\ <>(pc = "Idle" /\ BatchDone /\ VisitedAll)
    /\ (Phase \in {"Analyzing", "Recovering", "Persisting"}) ~> (pc = "Loop")

\* the runner is back in Idle after a batch of two: the first incident went
\* through recovery, the analysis of the second raised
C27_Witness ==
    /\ pc = "Idle" /\ BatchDone /\ Len(batch) = 2 /\ VisitedAll
    /\ InTrace(<<1, "recover">>) /\ ~InTrace(<<2, "recover">>)

\* the report of incident i is what its own fields and the answer of the
\* generation service to it give, whatever its position in the batch
OwnReport(i, n) ==
    IF reports[n].via = "recover"
    THEN reports[n].report = ReportFromRaw(reports[n].raw, batch[i].incident_id, batch[i].analyst)
    ELSE \E e \in AnalysisErrors :
            reports[n].report = ErrorReport(batch[i].incident_id, batch[i].analyst, e)

\* the result of the persistence attempt of incident i is what the collector's
\* answer to its own report gives
OwnPersistence(i, m) ==
    /\ \A n \in ReportsOf(i) : sinkLog[m].report = reports[n].report
    /\ \E hec \in HecOutcomes :
         /\ sinkLog[m].posted
         /\ sinkLog[m].ok = (JsonValid(sinkLog[m].report) /\ hec.kind # "exception"
                               /\ hec.status = 200 /\ hec.body = "code 0")

C29_OnlyMissingIdFailsValidation ==
    NormalizeReturned =>
        /\ callOut.incident.title # ""
        /\ ValidationFails(callOut.incident.incident_id, callOut.incident.title)
             <=> \A k \in {"ticket_id", "event_id", "rule_id", "cd"} : callIn.r[k] = ""

\* a record without source and rule_name and without any of the four id
\* keys: the title is the fallback and validation fails
C29_Witness ==
    /\ NormalizeReturned
    /\ callIn.r.source = "" /\ callIn.r.rule_name = ""
    /\ \A k \in {"ticket_id", "event_id", "rule_id", "cd"} : callIn.r[k] = ""
    /\ callOut.incident.title = "Notable Event"
    /\ ValidationFails(callOut.incident.incident_id, callOut.incident.title)

\* the age in whole days of the timestamp a run found
AgeInDays(run) ==
    ((2 * run.at.day + run.at.half) - (2 * run.before.day + run.before.half)) \div 2

\* C30: the last-update timestamp is written only by a run whose knowledge
\* base update succeeded; a run attempts the update exactly when the file is
\* missing, unreadable or at least update_interval_days old; so the run after
\* a failed update attempts again.
C30_TimestampOnlyAfterSuccess ==
    \A n \in 1..Len(updater.runs) :
        LET run == updater.runs[n] IN
          /\ run.after # run.before => (run.attempted /\ run.update = "True")
          /\ run.attempted <=>
                \/ run.before.state \in {"missing", "unreadable"}
                \/ run.before.state = "timestamp" /\ AgeInDays(run) >= update_interval_days
          /\ (n < Len(updater.runs) /\ run.attempted /\ run.update # "True") =>
                updater.runs[n + 1].attempted

\* a run found a timestamp two days old, its update failed, and the next run
\* attempted again, succeeded and wrote the time; an earlier run was skipped
C30_Witness ==
    /\ Len(updater.runs) = 3
    /\ ~updater.runs[1].attempted
    /\ updater.runs[2].attempted /\ updater.runs[2].update = "False"
    /\ updater.runs[2].before.state = "timestamp"
    /\ updater.runs[3].attempted /\ updater.runs[3].update = "True"
    /\ updater.runs[3].after.state = "timestamp" /\ updater.runs[3].after # updater.runs[3].before

====
